---------------------------- MODULE Spec2Model ----------------------------
(***************************************************************************)
(* A model of jcargo (Gui-Yom/jcargo): the coordinate cache                *)
(* (dependencies/dependency_graph.rs), the dependency setup of tasks.rs    *)
(* with the downloads of download.rs, and the POM algebra of               *)
(* dependencies/mavenpom.rs, and the repository URLs of                    *)
(* dependencies/mod.rs.                                                    *)
(*                                                                         *)
(* Independent parts share the module, each with its own                   *)
(* specifications:                                                         *)
(*   Spec / LiveSpec   the coordinate cache, DependencyGraph               *)
(*   SpecSetup         execute_task_mod and setup_all_dependencies, run    *)
(*                     over a persistent disk                              *)
(*   SpecScope         MavenPom::clean over POMs that vary scope/optional  *)
(*   SpecVersions      MavenPom::clean over POMs that vary versions/props  *)
(*   SpecCleanTwice    MavenPom::clean applied twice in a row              *)
(*   SpecMerge         MavenPom::merge of a parent and a child POM         *)
(*   SpecRules         PomDependencies::apply_rules                        *)
(*   SpecResolve       PropertiesExt::recurse_resolve on a text            *)
(*   SpecParse         MavenPom::parse on a document                       *)
(*   SpecParseScopes   MavenPom::parse on a document with dependencies     *)
(*   SpecRoundTrip     MavenPom::clean, save and parse in a row            *)
(*   SpecMergeIdentity MavenPom::merge with an empty POM                   *)
(*   SpecChain         MavenPom::merge folded over a chain of three POMs   *)
(*   SpecUrls          the URLs of a MavenRepoDependency                   *)
(***************************************************************************)
EXTENDS Integers, Sequences, FiniteSets, TLC

VARIABLES
    \* ---- coordinate cache (dependency_graph.rs) ----
    graph,      \* keys present in the HashMap (each maps to its own OnceCell)
    cellValue,  \* per key: the OnceCell's value, None or Some(v)
    cellLock,   \* per key: holder of the OnceCell's internal async mutex
    mapLock,    \* holder of the tokio Mutex around the HashMap
    pc,         \* per caller: position in get / get_or_init
    op,         \* per caller: "get" or "get_or_init"
    key,        \* per caller: the key argument
    result,     \* per caller: the returned value
    started,    \* per key: initializers started (history)
    noValue,    \* per key: an initializer returned Err or was dropped (history)
    sawFail,    \* per caller: the first initializer that failed while it waited (history)
    sawDrop,    \* per caller: an initializer was dropped while it waited (history)
    \* ---- dependency setup (tasks.rs, download.rs) ----
    command,     \* the Task that execute_task_mod was called with
    deps,        \* module.dependencies, in iteration order
    disk,        \* per file of <module>/libs: "absent", "partial" or "complete"
    task,        \* per dependency index: position of its spawned task
    joined,      \* number of join handles awaited so far
    phase,       \* position of execute_task_mod in the current run
    run,         \* number of the current invocation of the program
    requested,   \* indices whose task sent an HTTP request in this run (history)
    prevOk,      \* the previous run's setup returned normally (history)
    diskAtStart, \* the disk when the current run started (history)
    \* ---- POM algebra (dependencies/mavenpom.rs) ----
    pomIn,       \* the POM an operation is applied to
    pomOut,      \* the POM the operation left (pomIn when it did not complete)
    pomStatus,   \* "input", or how the operation ended
    pomChild,    \* merge: the child POM applied over pomIn
    pomAgain,    \* the POM left by a second clean, applied to pomOut
    xmlIn,       \* parse: the document, as the elements of <project>
    resolveIn,   \* recurse_resolve: [props, text, project_version]
    resolveOut,  \* recurse_resolve: the text returned
    pomLeaf,     \* merge of a chain: the POM applied over pomIn and pomChild
    pomRight,    \* merge of a chain: pomIn.merge(pomChild.merge(pomLeaf))
    \* ---- repository URLs (dependencies/mod.rs) ----
    urlIn,       \* the MavenRepoDependency: group, artifact, version, repo.url
    urlOut       \* the URLs built for it

cacheVars == <<graph, cellValue, cellLock, mapLock, pc, op, key, result,
               started, noValue, sawFail, sawDrop>>

setupVars == <<command, deps, disk, task, joined, phase, run, requested, prevOk,
               diskAtStart>>

chainVars == <<pomLeaf, pomRight>>

urlVars == <<urlIn, urlOut>>

pomVars == <<pomIn, pomOut, pomStatus, pomChild, pomAgain, xmlIn,
             resolveIn, resolveOut, chainVars, urlVars>>

vars == <<cacheVars, setupVars, pomVars>>

(***************************************************************************)
(* Option<T>: None is the empty sequence, Some(x) the one-element sequence. *)
(***************************************************************************)
None == << >>
Some(x) == <<x>>
IsSome(o) == Len(o) = 1
IsNone(o) == Len(o) = 0
Unwrap(o) == o[1]
\* Option::or
Or(a, b) == IF IsSome(a) THEN a ELSE b

(***************************************************************************)
(*                        THE COORDINATE CACHE                             *)
(***************************************************************************)

\* Number of concurrent tasks using the cache.
NumCallers == 3

Callers == 1 .. NumCallers

\* Coordinates used as keys ("group:artifact:version" notations).
Keys == {"g:a:1", "g:b:1"}

\* The value the initializer passed by caller c yields when it succeeds, and
\* the error it yields when it fails: both are identified by the caller, so
\* that two initializers never agree by accident.
Ok(c) == <<"Ok", c>>
Err(c) == <<"Err", c>>

\* No guard: a lock nobody holds.
Free == {}

InitCache ==
    /\ graph = {}
    /\ cellValue = [k \in Keys |-> None]
    /\ cellLock = [k \in Keys |-> Free]
    /\ mapLock = Free
    /\ pc = [c \in Callers |-> "idle"]
    /\ op = [c \in Callers |-> "none"]
    /\ key = [c \in Callers |-> CHOOSE k \in Keys : TRUE]
    /\ result = [c \in Callers |-> None]
    /\ started = [k \in Keys |-> 0]
    /\ noValue = [k \in Keys |-> FALSE]
    /\ sawFail = [c \in Callers |-> None]
    /\ sawDrop = [c \in Callers |-> FALSE]

\* History kept for the callers suspended on key k's cell when the
\* initializer run by caller c ends without a value.
Waiters(k) == {w \in Callers : pc[w] = "cell_wait" /\ key[w] = k}

\* A task calls get(key) and is granted the map lock:
\* self.graph.lock().await. A task that finds the lock held is suspended
\* before it has touched anything, which is the state it was in before
\* the call.
CallGet(c, k) ==
    /\ pc[c] = "idle"
    /\ mapLock = Free
    /\ mapLock' = {c}
    /\ pc' = [pc EXCEPT ![c] = "get_locked"]
    /\ op' = [op EXCEPT ![c] = "get"]
    /\ key' = [key EXCEPT ![c] = k]
    /\ UNCHANGED <<graph, cellValue, cellLock, result,
                   started, noValue, sawFail, sawDrop>>
    /\ UNCHANGED <<setupVars, pomVars>>

\* A task calls get_or_init(key, init) and is granted the map lock:
\* self.graph.lock().await.
CallGetOrInit(c, k) ==
    /\ pc[c] = "idle"
    /\ mapLock = Free
    /\ mapLock' = {c}
    /\ pc' = [pc EXCEPT ![c] = "goi_locked"]
    /\ op' = [op EXCEPT ![c] = "get_or_init"]
    /\ key' = [key EXCEPT ![c] = k]
    /\ UNCHANGED <<graph, cellValue, cellLock, result,
                   started, noValue, sawFail, sawDrop>>
    /\ UNCHANGED <<setupVars, pomVars>>

\* graph_.get(key).and_then(|c| c.get().cloned())
Peek(k) == IF k \in graph THEN cellValue[k] ELSE None

\* get: read under the map lock; the guard drops at the end of the function.
GetRead(c) ==
    /\ pc[c] = "get_locked"
    /\ result' = [result EXCEPT ![c] = <<"get", Peek(key[c])>>]
    /\ mapLock' = Free
    /\ pc' = [pc EXCEPT ![c] = "done"]
    /\ UNCHANGED <<graph, cellValue, cellLock, op, key,
                   started, noValue, sawFail, sawDrop>>
    /\ UNCHANGED <<setupVars, pomVars>>

MapLockAfterLookup_held(c) == {c}

\* The map guard after the block `let cell = { ... };`: dropped with the
\* block, before the cell is awaited.
MapLockAfterLookup(c) == Free

\* get_or_init: install a fresh cell when the key has none, clone the Arc of
\* the key's cell, release the map lock.
InstallOrLookup(c) ==
    /\ pc[c] = "goi_locked"
    /\ graph' = graph \cup {key[c]}
    /\ mapLock' = MapLockAfterLookup(c)
    /\ pc' = [pc EXCEPT ![c] = "cell_check"]
    /\ UNCHANGED <<cellValue, cellLock, op, key, result,
                   started, noValue, sawFail, sawDrop>>
    /\ UNCHANGED <<setupVars, pomVars>>

\* OnceCell::get_or_try_init, first load of `initialized`: an initialized
\* cell returns its value, an uninitialized one goes to take the cell's lock.
CellCheck(c) ==
    /\ pc[c] = "cell_check"
    /\ IF IsSome(cellValue[key[c]])
         THEN /\ result' = [result EXCEPT ![c] = Ok(Unwrap(cellValue[key[c]]))]
              /\ pc' = [pc EXCEPT ![c] = "done"]
         ELSE /\ pc' = [pc EXCEPT ![c] = "cell_wait"]
              /\ UNCHANGED result
    /\ UNCHANGED <<graph, cellValue, cellLock, mapLock, op, key,
                   started, noValue, sawFail, sawDrop>>
    /\ UNCHANGED <<setupVars, pomVars>>

CellLockFree_barge(k) == TRUE

\* The cell's lock can be taken only when nobody holds it.
CellLockFree(k) == cellLock[k] = Free

InitializedUnderLock_stale(k) == FALSE

\* OnceCell: the second load of `initialized`, made while holding the lock.
InitializedUnderLock(k) == IsSome(cellValue[k])

\* OnceCell: self.lock.lock().await, then the second load of `initialized`
\* under the lock (no other task stores to the cell between the two). An
\* initialized cell returns its value and drops the guard, the passed future
\* never polled; an uninitialized one starts polling the future, holding
\* the guard.
CellLock(c) ==
    /\ pc[c] = "cell_wait"
    /\ CellLockFree(key[c])
    /\ IF InitializedUnderLock(key[c])
         THEN /\ result' = [result EXCEPT ![c] = Ok(Unwrap(cellValue[key[c]]))]
              /\ pc' = [pc EXCEPT ![c] = "done"]
              /\ UNCHANGED <<started, cellLock>>
         ELSE /\ pc' = [pc EXCEPT ![c] = "init_running"]
              /\ cellLock' = [cellLock EXCEPT ![key[c]] = {c}]
              /\ started' = [started EXCEPT ![key[c]] = @ + 1]
              /\ UNCHANGED result
    /\ UNCHANGED <<graph, cellValue, mapLock, op, key, noValue, sawFail, sawDrop>>
    /\ UNCHANGED <<setupVars, pomVars>>

\* The initializer returned Ok(value): the value is stored, the cell is
\* marked initialized, the lock is released, the caller returns a clone.
InitOk(c) ==
    /\ pc[c] = "init_running"
    /\ cellValue' = [cellValue EXCEPT ![key[c]] = Some(c)]
    /\ cellLock' = [cellLock EXCEPT ![key[c]] = cellLock[key[c]] \ {c}]
    /\ result' = [result EXCEPT ![c] = Ok(c)]
    /\ pc' = [pc EXCEPT ![c] = "done"]
    /\ UNCHANGED <<graph, mapLock, op, key,
                   started, noValue, sawFail, sawDrop>>
    /\ UNCHANGED <<setupVars, pomVars>>

CellValueAfterErr_poisoned(c) == Some(c)

\* The cell's value after the initializer returned Err: nothing is stored.
CellValueAfterErr(c) == cellValue[key[c]]

CellLockAfterErr_leaked(c) == cellLock[key[c]]

\* The cell's lock after the initializer ended without a value (Err, or the
\* future was dropped): the guard is dropped.
CellLockAfterErr(c) == cellLock[key[c]] \ {c}

\* The initializer returned Err(e): the cell stays uninitialized, the lock is
\* released, the caller returns the error.
InitErr(c) ==
    /\ pc[c] = "init_running"
    /\ cellValue' = [cellValue EXCEPT ![key[c]] = CellValueAfterErr(c)]
    /\ cellLock' = [cellLock EXCEPT ![key[c]] = CellLockAfterErr(c)]
    /\ result' = [result EXCEPT ![c] = Err(c)]
    /\ pc' = [pc EXCEPT ![c] = "done"]
    /\ noValue' = [noValue EXCEPT ![key[c]] = TRUE]
    /\ sawFail' = [w \in Callers |->
                     IF w \in Waiters(key[c]) THEN Or(sawFail[w], Some(c))
                                              ELSE sawFail[w]]
    /\ UNCHANGED <<graph, mapLock, op, key, started, sawDrop>>
    /\ UNCHANGED <<setupVars, pomVars>>

\* The task running the initializer is cancelled: its future is dropped at
\* an await inside the initializer, which drops the cell's guard.
CancelInit(c) ==
    /\ pc[c] = "init_running"
    /\ cellLock' = [cellLock EXCEPT ![key[c]] = CellLockAfterErr(c)]
    /\ pc' = [pc EXCEPT ![c] = "cancelled"]
    /\ noValue' = [noValue EXCEPT ![key[c]] = TRUE]
    /\ sawDrop' = [w \in Callers |-> sawDrop[w] \/ w \in Waiters(key[c])]
    /\ UNCHANGED <<graph, cellValue, mapLock, op, key, result,
                   started, sawFail>>
    /\ UNCHANGED <<setupVars, pomVars>>

NextCache ==
    \E c \in Callers :
        \/ \E k \in Keys : CallGet(c, k)
        \/ \E k \in Keys : CallGetOrInit(c, k)
        \/ GetRead(c)
        \/ InstallOrLookup(c)
        \/ CellCheck(c)
        \/ CellLock(c)
        \/ InitOk(c)
        \/ InitErr(c)
        \/ CancelInit(c)


(***************************************************************************)
(*                 DEPENDENCY SETUP AND DOWNLOADS                          *)
(***************************************************************************)

\* Longest dependency list of a module.
MaxModuleDeps == 2

\* Number of times the program is run over the same directory.
MaxRuns == 2

\* The coordinates a manifest may name. "g:a:1" and "h:a:1" differ in the
\* group only.
Coordinates ==
    { [group |-> "g", artifact |-> "a", version |-> "1"],
      [group |-> "g", artifact |-> "b", version |-> "1"],
      [group |-> "h", artifact |-> "a", version |-> "1"] }

\* RepoDependency::get_file / MavenRepoDependency::jar_name
jar_name(d) == d.artifact \o "-" \o d.version \o ".jar"

Files == {jar_name(d) : d \in Coordinates}

DepLists == UNION {[1 .. n -> Coordinates] : n \in 0 .. MaxModuleDeps}

\* The tasks of execute_task_mod that set the dependencies up first.
Commands == {"Check", "Build", "Run", "Package"}

Exists_never(f) == FALSE

\* file_path.exists()
Exists(f) == disk[f] # "absent"

InitSetup ==
    /\ command \in Commands
    /\ deps \in DepLists
    /\ disk = [f \in Files |-> "absent"]
    /\ task = [i \in DOMAIN deps |-> "unspawned"]
    /\ joined = 0
    /\ phase = "spawning"
    /\ run = 1
    /\ requested = {}
    /\ prevOk = FALSE
    /\ diskAtStart = disk

\* The file of the task of dependency i.
FileOf(i) == jar_name(deps[i])

\* One iteration of the first loop: tokio::spawn of the dependency's task,
\* which starts running concurrently with the rest of the loop.
Spawn(i) ==
    /\ phase = "spawning"
    /\ i \in DOMAIN deps
    /\ task[i] = "unspawned"
    /\ \A j \in DOMAIN deps : j < i => task[j] # "unspawned"
    /\ task' = [task EXCEPT ![i] = "check"]
    /\ UNCHANGED <<command, deps, disk, joined, phase, run, requested, prevOk, diskAtStart>>
    /\ UNCHANGED <<cacheVars, pomVars>>

\* The first loop ends: every handle is in `handles`.
SpawnDone ==
    /\ phase = "spawning"
    /\ \A j \in DOMAIN deps : task[j] # "unspawned"
    /\ phase' = "joining"
    /\ UNCHANGED <<command, deps, disk, task, joined, run, requested, prevOk, diskAtStart>>
    /\ UNCHANGED <<cacheVars, pomVars>>

\* The task: `if file_path.exists() { return; }`, else download_file is
\* entered and client.get(url).send() issues the request.
TaskCheck(i) ==
    /\ i \in DOMAIN deps
    /\ task[i] = "check"
    /\ IF Exists(FileOf(i))
         THEN /\ task' = [task EXCEPT ![i] = "done"]
              /\ UNCHANGED requested
         ELSE /\ task' = [task EXCEPT ![i] = "sent"]
              /\ requested' = requested \cup {i}
    /\ UNCHANGED <<command, deps, disk, joined, phase, run, prevOk, diskAtStart>>
    /\ UNCHANGED <<cacheVars, pomVars>>

\* download_file: send().await? fails, or the status is not a success: Err
\* is returned before any file is opened, and the task's unwrap panics.
RequestFails(i) ==
    /\ i \in DOMAIN deps
    /\ task[i] = "sent"
    /\ task' = [task EXCEPT ![i] = "panicked"]
    /\ UNCHANGED <<command, deps, disk, joined, phase, run, requested, prevOk, diskAtStart>>
    /\ UNCHANGED <<cacheVars, pomVars>>

\* download_file: the status is a success; the file is opened with
\* create(true).truncate(true): it exists from now on, empty.
OpenFile(i) ==
    /\ i \in DOMAIN deps
    /\ task[i] = "sent"
    /\ disk' = [disk EXCEPT ![FileOf(i)] = "partial"]
    /\ task' = [task EXCEPT ![i] = "streaming"]
    /\ UNCHANGED <<command, deps, joined, phase, run, requested, prevOk, diskAtStart>>
    /\ UNCHANGED <<cacheVars, pomVars>>

\* download_file: every chunk is written and the buffer is flushed: Ok(()).
StreamDone(i) ==
    /\ i \in DOMAIN deps
    /\ task[i] = "streaming"
    /\ disk' = [disk EXCEPT ![FileOf(i)] = "complete"]
    /\ task' = [task EXCEPT ![i] = "done"]
    /\ UNCHANGED <<command, deps, joined, phase, run, requested, prevOk, diskAtStart>>
    /\ UNCHANGED <<cacheVars, pomVars>>

\* download_file: res.chunk().await? fails while the body streams: Err is
\* returned, the file stays as written so far, the task's unwrap panics.
StreamFails(i) ==
    /\ i \in DOMAIN deps
    /\ task[i] = "streaming"
    /\ task' = [task EXCEPT ![i] = "panicked"]
    /\ UNCHANGED <<command, deps, disk, joined, phase, run, requested, prevOk, diskAtStart>>
    /\ UNCHANGED <<cacheVars, pomVars>>

JoinHandleOk_error_ignored(t) == t \in {"done", "panicked"}

JoinHandleOk_not_awaited(t) == t # "panicked"

\* x.await on a JoinHandle is Ok(()) once its task has ended normally.
JoinHandleOk(t) == t = "done"

\* Second loop: x.await on the next handle, whose task ended normally.
JoinOk ==
    /\ phase = "joining"
    /\ joined < Len(deps)
    /\ JoinHandleOk(task[joined + 1])
    /\ joined' = joined + 1
    /\ UNCHANGED <<command, deps, disk, task, phase, run, requested, prevOk, diskAtStart>>
    /\ UNCHANGED <<cacheVars, pomVars>>

\* Second loop: x.await on the next handle yields a JoinError (the task
\* panicked) and .expect(..) panics: setup_all_dependencies does not return.
JoinPanics ==
    /\ phase = "joining"
    /\ joined < Len(deps)
    /\ task[joined + 1] = "panicked"
    /\ phase' = "panicked"
    /\ UNCHANGED <<command, deps, disk, task, joined, run, requested, prevOk, diskAtStart>>
    /\ UNCHANGED <<cacheVars, pomVars>>

\* Second loop ends: setup_all_dependencies returns, and with it check and
\* execute_task_mod(Task::Check).
SetupReturns ==
    /\ phase = "joining"
    /\ joined = Len(deps)
    /\ phase' = "returned"
    /\ UNCHANGED <<command, deps, disk, task, joined, run, requested, prevOk, diskAtStart>>
    /\ UNCHANGED <<cacheVars, pomVars>>

\* Task::Build, after execute_task_mod(Task::Check) returned:
\* build(module, env.comp_backend) is called and the compilers are started.
\* Task::Run and Task::Package start with execute_task_mod(Task::Build).
Compile ==
    /\ phase = "returned"
    /\ command \in {"Build", "Run", "Package"}
    /\ phase' = "compiling"
    /\ UNCHANGED <<command, deps, disk, task, joined, run, requested, prevOk,
                   diskAtStart>>
    /\ UNCHANGED <<cacheVars, pomVars>>

\* build returns: execute_task_mod(Task::Build) returns.
BuildDone ==
    /\ phase = "compiling"
    /\ phase' = "built"
    /\ UNCHANGED <<command, deps, disk, task, joined, run, requested, prevOk,
                   diskAtStart>>
    /\ UNCHANGED <<cacheVars, pomVars>>

\* build: a compiler cannot be started (spawn().unwrap()) and the panic
\* unwinds execute_task_mod.
BuildPanics ==
    /\ phase = "compiling"
    /\ phase' = "build panicked"
    /\ UNCHANGED <<command, deps, disk, task, joined, run, requested, prevOk,
                   diskAtStart>>
    /\ UNCHANGED <<cacheVars, pomVars>>

\* Task::Run, after execute_task_mod(Task::Build) returned: run(module,
\* entrypoint) starts the program.
RunProgram ==
    /\ phase = "built"
    /\ command = "Run"
    /\ phase' = "running"
    /\ UNCHANGED <<command, deps, disk, task, joined, run, requested, prevOk,
                   diskAtStart>>
    /\ UNCHANGED <<cacheVars, pomVars>>

\* run returns: the program has ended.
RunDone ==
    /\ phase = "running"
    /\ phase' = "ran"
    /\ UNCHANGED <<command, deps, disk, task, joined, run, requested, prevOk,
                   diskAtStart>>
    /\ UNCHANGED <<cacheVars, pomVars>>

\* Task::Package with docs, after execute_task_mod(Task::Build) returned:
\* execute_task_mod(Task::Doc) builds the documentation.
Document ==
    /\ phase = "built"
    /\ command = "Package"
    /\ phase' = "documented"
    /\ UNCHANGED <<command, deps, disk, task, joined, run, requested, prevOk,
                   diskAtStart>>
    /\ UNCHANGED <<cacheVars, pomVars>>

\* Task::Package, after the build (docs = false) or after the
\* documentation (docs = true): package(..) writes the jar.
PackageJar ==
    /\ phase \in {"built", "documented"}
    /\ command = "Package"
    /\ phase' = "packaged"
    /\ UNCHANGED <<command, deps, disk, task, joined, run, requested, prevOk,
                   diskAtStart>>
    /\ UNCHANGED <<cacheVars, pomVars>>

\* execute_task_mod has returned or panicked.
Ended ==
    \/ phase \in {"panicked", "build panicked"}
    \/ command = "Check" /\ phase = "returned"
    \/ command = "Build" /\ phase = "built"
    \/ command = "Run" /\ phase = "ran"
    \/ command = "Package" /\ phase = "packaged"

\* The process has ended (the task returned, or the panic unwound main and
\* the runtime dropped the tasks still in flight); the program is run again
\* on the same module and the same libs directory.
RunAgain ==
    /\ Ended
    /\ run < MaxRuns
    /\ run' = run + 1
    /\ prevOk' = (phase # "panicked")
    /\ diskAtStart' = disk
    /\ task' = [i \in DOMAIN deps |-> "unspawned"]
    /\ joined' = 0
    /\ phase' = "spawning"
    /\ requested' = {}
    /\ UNCHANGED <<command, deps, disk>>
    /\ UNCHANGED <<cacheVars, pomVars>>

NextSetup ==
    \/ \E i \in 1 .. MaxModuleDeps :
          \/ Spawn(i)
          \/ TaskCheck(i)
          \/ RequestFails(i)
          \/ OpenFile(i)
          \/ StreamDone(i)
          \/ StreamFails(i)
    \/ SpawnDone
    \/ JoinOk
    \/ JoinPanics
    \/ SetupReturns
    \/ Compile
    \/ BuildDone
    \/ BuildPanics
    \/ RunProgram
    \/ RunDone
    \/ Document
    \/ PackageJar
    \/ RunAgain

\* The setup part while another part is being checked.
IdleSetup ==
    /\ command = "Check"
    /\ deps = << >>
    /\ disk = [f \in Files |-> "absent"]
    /\ task = << >>
    /\ joined = 0
    /\ phase = "idle"
    /\ run = 0
    /\ requested = {}
    /\ prevOk = FALSE
    /\ diskAtStart = disk


(***************************************************************************)
(*                            THE POM ALGEBRA                              *)
(*                                                                         *)
(* A text is a sequence of characters. Option fields are None or Some(x).  *)
(* MavenPom:      [group_id, artifact_id, version, parent, properties,     *)
(*                 dependencies, dependency_management]                    *)
(* PomDependency: [group_id, artifact_id, version, scope, type, optional]  *)
(* Properties:    a function from names (texts) to texts                   *)
(***************************************************************************)

\* Longest dependency list of a POM.
MaxDeps == 2

\* Longest dependencyManagement list of a POM.
MaxRules == 2

\* The name that Maven itself defines: "project.version".
PROJECT_VERSION ==
    <<"p", "r", "o", "j", "e", "c", "t", ".", "v", "e", "r", "s", "i", "o", "n">>

\* "${" name "}"
Placeholder(name) == <<"$", "{">> \o name \o <<"}">>

\* The result of a recursion that never ends (the thread overflows its
\* stack and the process aborts); no text has this shape.
StackOverflow == <<"stack overflow">>

\* The regex \$\{(?P<prop_name>.+)\} on a text: the leftmost-first match
\* with a greedy `.+`. The match starts at the first "${" that has a "}"
\* at least one character after it, and it ends at the LAST "}" of the text.
\* <<i, j>>: the match is text[i .. j]; << >>: no match.
FindMatch(text) ==
    LET closes == {j \in 1 .. Len(text) : text[j] = "}"}
        last == IF closes = {} THEN 0
                ELSE CHOOSE j \in closes : \A x \in closes : x <= j
        opens == {i \in 1 .. Len(text) - 1 :
                    text[i] = "$" /\ text[i + 1] = "{" /\ i + 3 <= last}
    IN  IF opens = {} THEN << >>
        ELSE <<CHOOSE i \in opens : \A x \in opens : i <= x, last>>

\* PropertiesExt::recurse_resolve. Regex::replace_all replaces every
\* non-overlapping match by what the closure returns; a match ends at the
\* last "}" of the text, so a text has at most one. depth counts the nested
\* calls: a chain of lookups longer than the number of properties repeats a
\* name, and the recursion never ends.
RECURSIVE resolve(_, _, _, _)
resolve(props, text, project_version, depth) ==
    LET m == FindMatch(text) IN
    IF m = << >> THEN text
    ELSE
        LET prop == SubSeq(text, m[1] + 2, m[2] - 1)
            repl ==
                IF prop = PROJECT_VERSION THEN project_version
                ELSE IF prop \notin DOMAIN props THEN text
                ELSE IF depth >= Cardinality(DOMAIN props) THEN StackOverflow
                ELSE resolve(props, props[prop], project_version, depth + 1)
        IN  IF repl = StackOverflow THEN StackOverflow
            ELSE SubSeq(text, 1, m[1] - 1) \o repl \o SubSeq(text, m[2] + 1, Len(text))

recurse_resolve(props, text, project_version) ==
    resolve(props, text, project_version, 0)

should_keep_all(dep) == TRUE

\* PomDependency::should_keep
should_keep(dep) ==
    /\ ~(IF IsSome(dep.optional) THEN Unwrap(dep.optional) ELSE FALSE)
    /\ LET scope == IF IsSome(dep.scope) THEN Unwrap(dep.scope) ELSE "compile"
       IN  scope = "compile" \/ scope = "runtime"

\* rules.dependencies.dependencies.iter().find(same groupId and artifactId)
FindRule(dep, rules) ==
    LET hits == {i \in DOMAIN rules :
                   /\ rules[i].group_id = dep.group_id
                   /\ rules[i].artifact_id = dep.artifact_id}
    IN  IF hits = {} THEN None
        ELSE Some(rules[CHOOSE i \in hits : \A x \in hits : i <= x])

dep_apply_rules_overwrite(dep, rules) ==
    LET found == FindRule(dep, rules) IN
    IF IsSome(found)
      THEN LET rule == Unwrap(found) IN
           [group_id |-> dep.group_id,
            artifact_id |-> dep.artifact_id,
            version |-> Or(rule.version, dep.version),
            scope |-> Or(rule.scope, dep.scope),
            type |-> Or(rule.type, dep.type),
            optional |-> Or(rule.optional, dep.optional)]
      ELSE dep

\* PomDependency::apply_rules
dep_apply_rules(dep, rules) ==
    LET found == FindRule(dep, rules) IN
    IF IsSome(found)
      THEN LET rule == Unwrap(found) IN
           [group_id |-> dep.group_id,
            artifact_id |-> dep.artifact_id,
            version |-> Or(dep.version, rule.version),
            scope |-> Or(dep.scope, rule.scope),
            type |-> Or(dep.type, rule.type),
            optional |-> Or(dep.optional, rule.optional)]
      ELSE dep

\* PomDependencies::apply_rules
deps_apply_rules(dependencies, rules) ==
    [i \in DOMAIN dependencies |-> dep_apply_rules(dependencies[i], rules)]

\* PomDependencies::clean
deps_clean(dependencies) == SelectSeq(dependencies, should_keep)

\* MavenPom::clean, the dependencies after apply_rules and retain.
CleanedDeps(pom) ==
    deps_clean(IF IsSome(pom.dependency_management)
                 THEN deps_apply_rules(Unwrap(pom.dependencies),
                                       Unwrap(pom.dependency_management))
                 ELSE Unwrap(pom.dependencies))

\* MavenPom::clean, the loop over the retained dependencies: the version of
\* each is replaced by its expansion.
ResolvedDeps(pom, kept) ==
    [i \in DOMAIN kept |->
        IF IsSome(kept[i].version)
          THEN [kept[i] EXCEPT !.version =
                   Some(recurse_resolve(Unwrap(pom.properties),
                                        Unwrap(kept[i].version),
                                        Unwrap(pom.version)))]
          ELSE kept[i]]

\* MavenPom::clean assigns dependencies, properties and
\* dependency_management; parent is not assigned.
ParentAfterClean(pom) == pom.parent

PropertiesAfterClean_kept(pom) == pom.properties

\* self.properties = None
PropertiesAfterClean(pom) == None

\* MavenPom::clean. status "ok": the call returned, pom is the POM it left;
\* "panic": self.version is None when a retained dependency's version is
\* expanded (Option::unwrap); "overflow": an expansion never ends.
clean(pom) ==
    LET hasDeps == IsSome(pom.dependencies)
        kept == IF hasDeps THEN CleanedDeps(pom) ELSE << >>
        expands == hasDeps /\ IsSome(pom.properties)
        versioned == {i \in DOMAIN kept : IsSome(kept[i].version)}
        panics == expands /\ versioned # {} /\ IsNone(pom.version)
        final == IF expands /\ ~panics THEN ResolvedDeps(pom, kept) ELSE kept
        overflows == \E i \in DOMAIN final : final[i].version = Some(StackOverflow)
    IN  IF panics THEN [status |-> "panic", pom |-> pom]
        ELSE IF overflows THEN [status |-> "overflow", pom |-> pom]
        ELSE [status |-> "ok",
              pom |-> [pom EXCEPT
                         !.parent = ParentAfterClean(pom),
                         !.dependencies = IF final = << >> THEN None ELSE Some(final),
                         !.properties = PropertiesAfterClean(pom),
                         !.dependency_management = None]]

\* pom.clean() is called on the POM.
Clean ==
    /\ pomStatus = "input"
    /\ pomOut' = clean(pomIn).pom
    /\ pomStatus' = clean(pomIn).status
    /\ UNCHANGED <<pomIn, pomChild, pomAgain, xmlIn, resolveIn, resolveOut>>
    /\ UNCHANGED <<cacheVars, setupVars, chainVars, urlVars>>

NextPom == Clean

\* pom.clean() is called again, on the POM the first call left.
CleanAgain ==
    /\ pomStatus = "ok"
    /\ pomAgain' = clean(pomOut).pom
    /\ pomStatus' = "again " \o clean(pomOut).status
    /\ UNCHANGED <<pomIn, pomOut, pomChild, xmlIn, resolveIn, resolveOut>>
    /\ UNCHANGED <<cacheVars, setupVars, chainVars, urlVars>>

NextCleanTwice == Clean \/ CleanAgain

\* PropertiesExt::merge: a clone of self in which every entry of other is
\* inserted, replacing the entry of the same key.
props_merge(self, other) ==
    [n \in DOMAIN self \cup DOMAIN other |->
        IF n \in DOMAIN other THEN other[n] ELSE self[n]]

dep_merge_parent_wins(self, new) ==
    [group_id |-> new.group_id,
     artifact_id |-> new.artifact_id,
     version |-> Or(self.version, new.version),
     scope |-> Or(self.scope, new.scope),
     type |-> Or(self.type, new.type),
     optional |-> Or(self.optional, new.optional)]

\* PomDependency::merge: apply new onto self.
dep_merge(self, new) ==
    [group_id |-> new.group_id,
     artifact_id |-> new.artifact_id,
     version |-> Or(new.version, self.version),
     scope |-> Or(new.scope, self.scope),
     type |-> Or(new.type, self.type),
     optional |-> Or(new.optional, self.optional)]

\* PomDependencies::merge, the loop `for new_dep in &new.dependencies` from
\* its n-th iteration on: dependencies is the list built so far. find()
\* yields the first entry of that list with the groupId and artifactId of
\* new_dep, which is updated in place; without one, new_dep is pushed.
RECURSIVE deps_merge_from(_, _, _)
deps_merge_from(dependencies, new, n) ==
    IF n > Len(new) THEN dependencies
    ELSE
        LET new_dep == new[n]
            hits == {i \in DOMAIN dependencies :
                       /\ dependencies[i].group_id = new_dep.group_id
                       /\ dependencies[i].artifact_id = new_dep.artifact_id}
        IN  IF hits # {}
              THEN LET curr == CHOOSE i \in hits : \A x \in hits : i <= x
                   IN  deps_merge_from(
                           [dependencies EXCEPT ![curr] = dep_merge(@, new_dep)],
                           new, n + 1)
              ELSE deps_merge_from(Append(dependencies, new_dep), new, n + 1)

\* PomDependencies::merge (and DependencyManagement::merge, which merges
\* the lists of the two sections).
deps_merge(self, new) == deps_merge_from(self, new, 1)

\* MavenPom::merge, `let props`: the properties merged when both sides
\* have the section, else the side that has it, else none.
merge_props(p, c) ==
    IF IsSome(p)
      THEN IF IsSome(c) THEN Some(props_merge(Unwrap(p), Unwrap(c))) ELSE p
      ELSE IF IsSome(c) THEN c ELSE None

merge_deps_dedup(p, c) ==
    IF IsSome(c)
      THEN Some(deps_merge(IF IsSome(p) THEN Unwrap(p) ELSE << >>, Unwrap(c)))
      ELSE p

merge_deps_child_only(p, c) == c

\* MavenPom::merge, `let deps` and `let dep_mgmt`: the same for the
\* dependencies and for the dependencyManagement.
merge_deps(p, c) ==
    IF IsSome(p)
      THEN IF IsSome(c) THEN Some(deps_merge(Unwrap(p), Unwrap(c))) ELSE p
      ELSE IF IsSome(c) THEN c ELSE None

merge_group_id_parent_first(self, new) == Or(self.group_id, new.group_id)

\* new.group_id.clone().or(self.group_id.clone())
merge_group_id(self, new) == Or(new.group_id, self.group_id)

\* MavenPom::merge: a new POM, the child POM new applied over the parent
\* POM self.
merge(self, new) ==
    [model_version |-> <<"4", ".", "0", ".", "0">>,
     group_id |-> merge_group_id(self, new),
     artifact_id |-> new.artifact_id,
     version |-> Or(new.version, self.version),
     parent |-> None,
     properties |-> merge_props(self.properties, new.properties),
     dependencies |-> merge_deps(self.dependencies, new.dependencies),
     dependency_management |->
         merge_deps(self.dependency_management, new.dependency_management)]

\* pomIn.merge(&pomChild) is called.
Merge ==
    /\ pomStatus = "input"
    /\ pomOut' = merge(pomIn, pomChild)
    /\ pomStatus' = "merged"
    /\ UNCHANGED <<pomIn, pomChild, pomAgain, xmlIn, resolveIn, resolveOut>>
    /\ UNCHANGED <<cacheVars, setupVars, chainVars, urlVars>>

NextMerge == Merge

\* A chain pomIn, pomChild, pomLeaf (root first) is folded from the root:
\* pomIn.merge(&pomChild).merge(&pomLeaf).
MergeLeft ==
    /\ pomStatus = "input"
    /\ pomOut' = merge(merge(pomIn, pomChild), pomLeaf)
    /\ pomStatus' = "folded left"
    /\ UNCHANGED <<pomIn, pomChild, pomAgain, xmlIn, resolveIn, resolveOut>>
    /\ UNCHANGED <<cacheVars, setupVars, pomLeaf, pomRight, urlVars>>

\* The same chain is folded from the leaf: pomIn.merge(&pomChild.merge(&pomLeaf)).
MergeRight ==
    /\ pomStatus = "folded left"
    /\ pomRight' = merge(pomIn, merge(pomChild, pomLeaf))
    /\ pomStatus' = "folded"
    /\ UNCHANGED <<pomIn, pomOut, pomChild, pomAgain, xmlIn, resolveIn, resolveOut>>
    /\ UNCHANGED <<cacheVars, setupVars, pomLeaf, urlVars>>

NextChain == MergeLeft \/ MergeRight

\* deps.apply_rules(mgmt) is called on the dependencies of the POM, with
\* its dependencyManagement.
ApplyRules ==
    /\ pomStatus = "input"
    /\ IsSome(pomIn.dependencies) /\ IsSome(pomIn.dependency_management)
    /\ pomOut' = [pomIn EXCEPT !.dependencies =
                     Some(deps_apply_rules(Unwrap(pomIn.dependencies),
                                           Unwrap(pomIn.dependency_management)))]
    /\ pomStatus' = "ruled"
    /\ UNCHANGED <<pomIn, pomChild, pomAgain, xmlIn, resolveIn, resolveOut>>
    /\ UNCHANGED <<cacheVars, setupVars, chainVars, urlVars>>

NextRules == ApplyRules

\* props.recurse_resolve(text, project_version) is called. A recursion that
\* never ends returns nothing: the text is left as it was.
Resolve ==
    /\ pomStatus = "input"
    /\ resolveIn # << >>
    /\ LET out == recurse_resolve(resolveIn.props, resolveIn.text,
                                  resolveIn.project_version)
       IN  IF out = StackOverflow
             THEN /\ pomStatus' = "overflow"
                  /\ UNCHANGED resolveOut
             ELSE /\ pomStatus' = "resolved"
                  /\ resolveOut' = out
    /\ UNCHANGED <<pomIn, pomOut, pomChild, pomAgain, xmlIn, resolveIn>>
    /\ UNCHANGED <<cacheVars, setupVars, chainVars, urlVars>>

NextResolve == Resolve

\* A text that is not an XML document.
NotXml == [xml |-> FALSE, schema_location |-> << >>, children |-> << >>]

\* An element of a document: its name and its content, a text or (for
\* <parent>) the elements inside it.
Element(tag, value) == [tag |-> tag, value |-> value]

\* The contents of the elements named tag among children, in their order.
ChildrenNamed(children, tag) ==
    LET hits == SelectSeq(children, LAMBDA e : e.tag = tag)
    IN  [i \in DOMAIN hits |-> hits[i].value]

\* The fields the derived Deserialize reads from the children of an
\* element; the other elements are skipped.
ParentFields == {"groupId", "artifactId", "version"}

ProjectFields ==
    {"modelVersion", "groupId", "artifactId", "version", "parent",
     "properties", "dependencies", "dependencyManagement"}

\* serde: a field that occurs twice is an error ("duplicate field").
HasDuplicate(children, fields) ==
    \E f \in fields : Len(ChildrenNamed(children, f)) > 1

\* serde, a field of type Option<_>: None without the element.
de_option(children, tag) ==
    IF ChildrenNamed(children, tag) = << >> THEN None
    ELSE Some(ChildrenNamed(children, tag)[1])

\* Deserialize for ParentPom, whose three fields are required.
\* << >>: an error ("missing field", "duplicate field").
de_parent(children) ==
    IF \/ HasDuplicate(children, ParentFields)
       \/ \E f \in ParentFields : ChildrenNamed(children, f) = << >>
      THEN << >>
      ELSE <<[group_id |-> ChildrenNamed(children, "groupId")[1],
              artifact_id |-> ChildrenNamed(children, "artifactId")[1],
              version |-> ChildrenNamed(children, "version")[1]]>>

\* The fields of PomDependency.
DependencyFields ==
    {"groupId", "artifactId", "version", "scope", "type", "optional"}

\* The names the variants of MavenDependencyScope are renamed to.
ScopeNames == {"compile", "runtime", "test", "provided"}

\* Deserialize for MavenDependencyScope: one of the four names gives its
\* variant, any other text is an error ("unknown variant"); the enum has
\* no catch-all variant. << >>: Err.
de_scope(text) ==
    IF Len(text) = 1 /\ text[1] \in ScopeNames THEN <<text[1]>> ELSE << >>

\* Deserialize for bool.
de_bool(text) ==
    IF text = <<"true">> THEN <<TRUE>>
    ELSE IF text = <<"false">> THEN <<FALSE>>
    ELSE << >>

\* Deserialize for PomDependency: groupId and artifactId are required, the
\* other fields are None without their element.
de_dependency(children) ==
    IF \/ HasDuplicate(children, DependencyFields)
       \/ ChildrenNamed(children, "groupId") = << >>
       \/ ChildrenNamed(children, "artifactId") = << >>
       \/ /\ ChildrenNamed(children, "scope") # << >>
          /\ de_scope(ChildrenNamed(children, "scope")[1]) = << >>
       \/ /\ ChildrenNamed(children, "optional") # << >>
          /\ de_bool(ChildrenNamed(children, "optional")[1]) = << >>
      THEN << >>
      ELSE <<[group_id |-> ChildrenNamed(children, "groupId")[1],
              artifact_id |-> ChildrenNamed(children, "artifactId")[1],
              version |-> de_option(children, "version"),
              scope |-> IF ChildrenNamed(children, "scope") = << >> THEN None
                        ELSE de_scope(ChildrenNamed(children, "scope")[1]),
              type |-> de_option(children, "type"),
              optional |->
                  IF ChildrenNamed(children, "optional") = << >> THEN None
                  ELSE de_bool(ChildrenNamed(children, "optional")[1])]>>

\* Deserialize for PomDependencies: the field `dependency` is a Vec, read
\* from the <dependency> elements in their order; it is a required field.
de_dependencies(children) ==
    LET each == ChildrenNamed(children, "dependency") IN
    IF each = << >> \/ \E i \in DOMAIN each : de_dependency(each[i]) = << >>
      THEN << >>
      ELSE <<[i \in DOMAIN each |-> de_dependency(each[i])[1]]>>

\* Deserialize for DependencyManagement: its field dependencies is required.
de_management(children) ==
    IF Len(ChildrenNamed(children, "dependencies")) # 1 THEN << >>
    ELSE de_dependencies(ChildrenNamed(children, "dependencies")[1])

\* Deserialize for HashMap<String, String>: an entry for each element, the
\* last one of a name staying.
de_properties(children) ==
    [name \in {children[i].tag : i \in DOMAIN children} |->
        LET hits == {i \in DOMAIN children : children[i].tag = name}
        IN  children[CHOOSE i \in hits : \A x \in hits : x <= i].value]

\* quick_xml::de::from_str::<MavenPom>: the text must be a document, the
\* attribute xsi:schemaLocation and the elements modelVersion and
\* artifactId are required, the Option fields are None without their
\* element. << >>: Err; <<pom>>: Ok(pom).
from_str(text) ==
    IF ~text.xml THEN << >>
    ELSE IF \/ IsNone(text.schema_location)
            \/ HasDuplicate(text.children, ProjectFields)
            \/ ChildrenNamed(text.children, "modelVersion") = << >>
            \/ ChildrenNamed(text.children, "artifactId") = << >>
            \/ /\ ChildrenNamed(text.children, "parent") # << >>
               /\ de_parent(ChildrenNamed(text.children, "parent")[1]) = << >>
            \/ /\ ChildrenNamed(text.children, "dependencies") # << >>
               /\ de_dependencies(
                      ChildrenNamed(text.children, "dependencies")[1]) = << >>
            \/ /\ ChildrenNamed(text.children, "dependencyManagement") # << >>
               /\ de_management(
                      ChildrenNamed(text.children, "dependencyManagement")[1])
                      = << >>
      THEN << >>
      ELSE <<[model_version |-> ChildrenNamed(text.children, "modelVersion")[1],
              group_id |-> de_option(text.children, "groupId"),
              artifact_id |-> ChildrenNamed(text.children, "artifactId")[1],
              version |-> de_option(text.children, "version"),
              parent |-> IF ChildrenNamed(text.children, "parent") = << >> THEN None
                         ELSE de_parent(ChildrenNamed(text.children, "parent")[1]),
              properties |->
                  IF ChildrenNamed(text.children, "properties") = << >> THEN None
                  ELSE Some(de_properties(
                           ChildrenNamed(text.children, "properties")[1])),
              dependencies |->
                  IF ChildrenNamed(text.children, "dependencies") = << >>
                    THEN None
                    ELSE de_dependencies(
                             ChildrenNamed(text.children, "dependencies")[1]),
              dependency_management |->
                  IF ChildrenNamed(text.children, "dependencyManagement") = << >>
                    THEN None
                    ELSE de_management(ChildrenNamed(
                             text.children, "dependencyManagement")[1])]>>

parse_group_id_as_read(pom) == pom.group_id

\* if pom.group_id.is_none() { pom.group_id = Some(parent.group_id) }
parse_group_id(pom) ==
    IF IsNone(pom.group_id) THEN Some(Unwrap(pom.parent).group_id)
                            ELSE pom.group_id

\* if pom.version.is_none() { pom.version = Some(parent.version) }
parse_version(pom) ==
    IF IsNone(pom.version) THEN Some(Unwrap(pom.parent).version)
                           ELSE pom.version

\* MavenPom::parse. status "parse error": from_str returned Err, which `?`
\* returns to the caller; "panic": pom.parent.as_ref().unwrap() on a POM
\* without a parent; "parsed": Ok(pom).
parse(text) ==
    LET read == from_str(text) IN
    IF read = << >> THEN [status |-> "parse error", pom |-> << >>]
    ELSE LET pom == read[1] IN
         IF (IsNone(pom.group_id) \/ IsNone(pom.version)) /\ IsNone(pom.parent)
           THEN [status |-> "panic", pom |-> << >>]
           ELSE [status |-> "parsed",
                 pom |-> [pom EXCEPT !.group_id = parse_group_id(pom),
                                     !.version = parse_version(pom)]]

\* MavenPom::parse(xmlIn) is called.
Parse ==
    /\ pomStatus = "input"
    /\ xmlIn # << >>
    /\ pomStatus' = parse(xmlIn).status
    /\ pomOut' = parse(xmlIn).pom
    /\ UNCHANGED <<pomIn, pomChild, pomAgain, xmlIn, resolveIn, resolveOut>>
    /\ UNCHANGED <<cacheVars, setupVars, chainVars, urlVars>>

NextParse == Parse

\* Serialize for Option<_>: no element for None.
ser_option(tag, value) ==
    IF IsNone(value) THEN << >> ELSE <<Element(tag, Unwrap(value))>>

\* Serialize for bool.
ser_bool(b) == IF b THEN <<"true">> ELSE <<"false">>

\* Serialize for ParentPom.
ser_parent(parent) ==
    << Element("groupId", parent.group_id),
       Element("artifactId", parent.artifact_id),
       Element("version", parent.version) >>

\* Serialize for PomDependency; a scope is written as the name its variant
\* is renamed to.
ser_dependency(dep) ==
    << Element("groupId", dep.group_id), Element("artifactId", dep.artifact_id) >>
        \o ser_option("version", dep.version)
        \o (IF IsNone(dep.scope) THEN << >>
            ELSE <<Element("scope", <<Unwrap(dep.scope)>>)>>)
        \o ser_option("type", dep.type)
        \o (IF IsNone(dep.optional) THEN << >>
            ELSE <<Element("optional", ser_bool(Unwrap(dep.optional)))>>)

\* Serialize for PomDependencies: a <dependency> for each entry.
ser_dependencies(dependencies) ==
    [i \in DOMAIN dependencies |->
        Element("dependency", ser_dependency(dependencies[i]))]

\* Serialize for HashMap<String, String>: an element for each entry, in
\* the order the map iterates in.
RECURSIVE ser_properties(_)
ser_properties(properties) ==
    IF DOMAIN properties = {} THEN << >>
    ELSE LET name == CHOOSE n \in DOMAIN properties : TRUE
             rest == [n \in DOMAIN properties \ {name} |-> properties[n]]
         IN  <<Element(name, properties[name])>> \o ser_properties(rest)

\* MavenPom::save: quick_xml::se::to_string(self), the document with the
\* POM's schema location and an element for each field that is not None.
save(pom) ==
    [xml |-> TRUE,
     schema_location |-> Some(<<"xsd">>),
     children |->
        <<Element("modelVersion", pom.model_version)>>
        \o ser_option("groupId", pom.group_id)
        \o <<Element("artifactId", pom.artifact_id)>>
        \o ser_option("version", pom.version)
        \o (IF IsNone(pom.parent) THEN << >>
            ELSE <<Element("parent", ser_parent(Unwrap(pom.parent)))>>)
        \o (IF IsNone(pom.properties) THEN << >>
            ELSE <<Element("properties",
                           ser_properties(Unwrap(pom.properties)))>>)
        \o (IF IsNone(pom.dependencies) THEN << >>
            ELSE <<Element("dependencies",
                           ser_dependencies(Unwrap(pom.dependencies)))>>)
        \o (IF IsNone(pom.dependency_management) THEN << >>
            ELSE <<Element("dependencyManagement",
                      <<Element("dependencies", ser_dependencies(
                            Unwrap(pom.dependency_management)))>>)>>)]

\* pom.save() is called on the cleaned POM.
Save ==
    /\ pomStatus = "ok"
    /\ xmlIn' = save(pomOut)
    /\ pomStatus' = "saved"
    /\ UNCHANGED <<pomIn, pomOut, pomChild, pomAgain, resolveIn, resolveOut>>
    /\ UNCHANGED <<cacheVars, setupVars, chainVars, urlVars>>

\* MavenPom::parse is called on the text save returned.
ParseSaved ==
    /\ pomStatus = "saved"
    /\ pomAgain' = parse(xmlIn).pom
    /\ pomStatus' = "round trip " \o parse(xmlIn).status
    /\ UNCHANGED <<pomIn, pomOut, pomChild, xmlIn, resolveIn, resolveOut>>
    /\ UNCHANGED <<cacheVars, setupVars, chainVars, urlVars>>

\* let mut pom = ...; pom.clean(); MavenPom::parse(&pom.save()?)
NextRoundTrip == Clean \/ Save \/ ParseSaved

\* ---- repository URLs (dependencies/mod.rs) ----

\* str::replace(from, to) with one-character patterns.
replace(text, from, to) ==
    [i \in DOMAIN text |-> IF text[i] = from THEN to ELSE text[i]]

\* MavenRepoDependency::get_path
get_path(d) ==
    replace(d.group, ".", "/") \o <<"/">> \o d.artifact \o <<"/">>
        \o d.version \o <<"/">>

\* MavenRepoDependency::base_name
base_name(d) == d.artifact \o <<"-">> \o d.version

\* MavenRepoDependency::pom_name
pom_name(d) == base_name(d) \o <<".pom">>

\* Url::join with a relative path (no scheme, no leading "/", no dot
\* segment, no query): the reference is resolved against the base as in
\* RFC 3986, 5.2.3: it replaces what follows the last "/" of the base's path.
join(url, reference) ==
    LET slashes == {i \in DOMAIN url.path : url.path[i] = "/"}
        last == CHOOSE i \in slashes : \A x \in slashes : x <= i
    IN  [url EXCEPT !.path = SubSeq(url.path, 1, last) \o reference]

\* MavenRepoDependency::jar_url
jar_url(d) == join(join(d.repo.url, get_path(d)), base_name(d) \o <<".jar">>)

\* MavenRepoDependency::sources_url
sources_url(d) ==
    join(join(d.repo.url, get_path(d)), base_name(d) \o <<"-sources.jar">>)

\* MavenRepoDependency::docs_url
docs_url(d) ==
    join(join(d.repo.url, get_path(d)), base_name(d) \o <<"-javadoc.jar">>)

\* MavenRepoDependency::pom_url
pom_url(d) == join(join(d.repo.url, get_path(d)), pom_name(d))

\* The four URLs of the dependency are built.
BuildUrls ==
    /\ urlIn # << >>
    /\ urlOut = << >>
    /\ urlOut' = [jar |-> jar_url(urlIn), pom |-> pom_url(urlIn),
                  sources |-> sources_url(urlIn), docs |-> docs_url(urlIn)]
    /\ UNCHANGED <<urlIn, pomIn, pomOut, pomStatus, pomChild, pomAgain, xmlIn,
                   resolveIn, resolveOut, chainVars>>
    /\ UNCHANGED <<cacheVars, setupVars>>

NextUrls == BuildUrls

\* ---- the POMs the operations are applied to ----

\* The operands of the operations that are not being applied.
NoChain == pomLeaf = << >> /\ pomRight = << >>

NoUrl == urlIn = << >> /\ urlOut = << >>

NoOperands ==
    /\ NoChain
    /\ NoUrl
    /\ pomChild = << >>
    /\ pomAgain = << >>
    /\ xmlIn = << >>
    /\ resolveIn = << >>
    /\ resolveOut = << >>

Text1 == <<"1">>
Text9 == <<"9">>

Dep(a, v, s, o) ==
    [group_id |-> <<"g">>, artifact_id |-> a, version |-> v,
     scope |-> s, type |-> None, optional |-> o]

Scopes == {Some("compile"), Some("runtime"), Some("test"), Some("provided")}

\* Sequences over S of length 0 .. n.
SeqUpTo(S, n) == UNION {[1 .. k -> S] : k \in 0 .. n}

THE_PARENT ==
    [group_id |-> <<"g">>, artifact_id |-> <<"p">>, version |-> Text1]

Pom(v, par, props, ds, mgmt) ==
    [model_version |-> <<"4", ".", "0", ".", "0">>,
     group_id |-> Some(<<"g">>), artifact_id |-> <<"m">>, version |-> v,
     parent |-> par, properties |-> props,
     dependencies |-> ds, dependency_management |-> mgmt]

\* Dependencies that vary in scope and optional.
ScopeDeps ==
    {Dep(<<"a">>, None, s, o) :
        s \in {None} \cup Scopes, o \in {None, Some(TRUE), Some(FALSE)}}

\* dependencyManagement rules: for artifact a and for another artifact.
ScopeRules ==
    { Dep(<<"a">>, None, Some("test"), None),
      Dep(<<"a">>, None, Some("runtime"), Some(FALSE)),
      Dep(<<"a">>, None, None, Some(TRUE)),
      Dep(<<"b">>, None, Some("test"), Some(TRUE)) }

\* The shapes of the rest of the POM: no parent and no properties, or a
\* parent reference and an empty properties section.
ScopeShapes == {<<None, None>>, <<Some(THE_PARENT), Some(<< >>)>>}

\* A POM whose dependencies vary in scope and optional is parsed.
InitScopePom ==
    /\ \E sh \in ScopeShapes :
       \E ds \in {None} \cup {Some(l) : l \in SeqUpTo(ScopeDeps, MaxDeps)} :
       \E mgmt \in {None} \cup {Some(l) : l \in SeqUpTo(ScopeRules, MaxRules)} :
          pomIn = Pom(Some(Text9), sh[1], sh[2], ds, mgmt)
    /\ pomOut = pomIn
    /\ pomStatus = "input"
    /\ NoOperands

\* Property names and values: plain values, references to a property, and
\* a reference after a literal prefix.
PropNames == {<<"a">>, <<"b">>}

PropValues ==
    {<<"v">>, Placeholder(<<"a">>), Placeholder(<<"b">>),
     <<"c">> \o Placeholder(<<"a">>)}

PropertyMaps == UNION {[S -> PropValues] : S \in SUBSET PropNames}

\* Versions as written in a POM: absent, literal, or with placeholders.
VersionTexts ==
    {None, Some(Text1),
     Some(Placeholder(<<"a">>)), Some(Placeholder(<<"b">>)),
     Some(Placeholder(PROJECT_VERSION)),
     Some(<<"x">> \o Placeholder(<<"a">>)),
     Some(Placeholder(<<"a">>) \o Placeholder(<<"b">>))}

VersionDeps == {Dep(<<"a">>, v, None, None) : v \in VersionTexts}

\* A POM whose dependencies vary in version, and whose properties vary.
InitVersionsPom ==
    /\ \E v \in {None, Some(Text9)} :
       \E props \in {None} \cup {Some(m) : m \in PropertyMaps} :
       \E ds \in {None} \cup {Some(l) : l \in SeqUpTo(VersionDeps, MaxDeps)} :
          pomIn = Pom(v, None, props, ds, None)
    /\ pomOut = pomIn
    /\ pomStatus = "input"
    /\ NoOperands

\* Dependencies and rules that vary together: fields left to the rules,
\* versions written with placeholders, scopes and optional flags on either
\* side.
MixedDeps ==
    { Dep(<<"a">>, None, None, None),
      Dep(<<"a">>, Some(Placeholder(<<"a">>)), Some("runtime"), None),
      Dep(<<"a">>, Some(Text1), Some("test"), None),
      Dep(<<"b">>, Some(<<"x">> \o Placeholder(<<"a">>)), None, Some(FALSE)),
      Dep(<<"a">>, Some(Placeholder(PROJECT_VERSION)), None, Some(TRUE)) }

MixedRules ==
    { Dep(<<"a">>, Some(Placeholder(<<"b">>)), Some("runtime"), None),
      Dep(<<"a">>, Some(Text1), Some("test"), None),
      Dep(<<"b">>, None, None, Some(TRUE)) }

\* Properties: absent; a and b defined, b through a; a undefined; a cycle.
MixedProperties ==
    { None,
      Some([n \in PropNames |->
               IF n = <<"a">> THEN <<"v">> ELSE <<"c">> \o Placeholder(<<"a">>)]),
      Some([n \in {<<"b">>} |-> <<"v">>]),
      Some([n \in {<<"a">>} |-> Placeholder(<<"a">>)]) }

\* A POM whose dependencies, rules and properties vary together.
InitMixedPom ==
    /\ \E v \in {None, Some(Text9)} :
       \E par \in {None, Some(THE_PARENT)} :
       \E props \in MixedProperties :
       \E ds \in {None} \cup {Some(l) : l \in SeqUpTo(MixedDeps, MaxDeps)} :
       \E mgmt \in {None} \cup {Some(l) : l \in SeqUpTo(MixedRules, MaxRules)} :
          pomIn = Pom(v, par, props, ds, mgmt)
    /\ pomOut = pomIn
    /\ pomStatus = "input"
    /\ NoOperands

\* The head of a POM: groupId, artifactId, version, parent reference and
\* modelVersion, each present or absent where the struct allows it.
HeadPoms ==
    {[Pom(v, par, None, None, None) EXCEPT
         !.group_id = g, !.artifact_id = a, !.model_version = mv] :
        g \in {None, Some(<<"g">>), Some(<<"h">>)},
        a \in {<<"m">>, <<"n">>},
        v \in {None, Some(Text1), Some(Text9)},
        par \in {None, Some(THE_PARENT)},
        mv \in {<<"4", ".", "0", ".", "0">>, <<"4">>}}

DepT(a, v, s, t, o) == [Dep(a, v, s, o) EXCEPT !.type = t]

\* Entries of a dependencies or dependencyManagement section whose fields
\* are present on one side and absent on the other.
MergeDeps ==
    { DepT(<<"a">>, Some(Text1), Some("test"), None, None),
      DepT(<<"a">>, None, None, Some(<<"jar">>), Some(TRUE)),
      DepT(<<"a">>, Some(Text9), None, None, Some(FALSE)),
      DepT(<<"b">>, Some(Text1), None, None, None),
      DepT(<<"b">>, None, Some("runtime"), None, None) }

\* Property sections with a key in common and keys of their own.
MergeProperties ==
    { None, Some(<< >>),
      Some([n \in {<<"a">>} |-> <<"v">>]),
      Some([n \in PropNames |-> <<"w">>]),
      Some([n \in {<<"b">>} |-> <<"v">>]) }

\* A parent POM and a child POM that differ in their heads, in their
\* properties, in their dependencies, or in their dependencyManagement.
InitMergePoms ==
    /\ \/ \E p \in HeadPoms, c \in HeadPoms : pomIn = p /\ pomChild = c
       \/ \E p \in MergeProperties, c \in MergeProperties :
             /\ pomIn = Pom(Some(Text1), None, p, None, None)
             /\ pomChild = Pom(Some(Text9), Some(THE_PARENT), c, None, None)
       \/ \E p \in {None} \cup {Some(l) : l \in SeqUpTo(MergeDeps, MaxDeps)} :
          \E c \in {None} \cup {Some(l) : l \in SeqUpTo(MergeDeps, MaxDeps)} :
             /\ pomIn = Pom(Some(Text1), None, None, p, None)
             /\ pomChild = Pom(Some(Text9), Some(THE_PARENT), None, c, None)
       \/ \E p \in {None} \cup {Some(l) : l \in SeqUpTo(MergeDeps, MaxRules)} :
          \E c \in {None} \cup {Some(l) : l \in SeqUpTo(MergeDeps, MaxRules)} :
             /\ pomIn = Pom(Some(Text1), None, None, None, p)
             /\ pomChild = Pom(Some(Text9), Some(THE_PARENT), None, None, c)
    /\ pomOut = pomIn
    /\ pomStatus = "input"
    /\ pomAgain = << >>
    /\ xmlIn = << >>
    /\ resolveIn = << >>
    /\ resolveOut = << >>
    /\ NoChain
    /\ NoUrl

\* POMs with nothing to inherit or to override: no groupId, no version and
\* no section. The struct always has an artifactId.
EmptyPoms ==
    {[Pom(None, None, None, None, None) EXCEPT
         !.group_id = None, !.artifact_id = a] : a \in {<<"m">>, <<"e">>}}

\* dependencyManagement rules of a POM merged with an empty POM.
IdentityRules ==
    { DepT(<<"a">>, Some(Text1), None, None, None),
      DepT(<<"a">>, None, Some("test"), None, None) }

\* An empty POM as the parent or as the child of a POM that varies in its
\* head or in its sections.
InitMergeIdentity ==
    /\ \E e \in EmptyPoms, emptyIsParent \in BOOLEAN :
       \E p \in HeadPoms \cup {e} :
       \E props \in MergeProperties :
       \E ds \in {None} \cup {Some(l) : l \in SeqUpTo(MergeDeps, MaxDeps)} :
       \E mgmt \in {None} \cup {Some(l) : l \in SeqUpTo(IdentityRules, MaxRules)} :
          LET full == [p EXCEPT !.properties = props, !.dependencies = ds,
                                !.dependency_management = mgmt]
          IN  /\ p \notin {Pom(Some(Text9), Some(THE_PARENT), None, None, None), e}
                   => (IsNone(props) /\ IsNone(ds) /\ IsNone(mgmt))
              /\ pomIn = IF emptyIsParent THEN e ELSE full
              /\ pomChild = IF emptyIsParent THEN full ELSE e
    /\ pomOut = pomIn
    /\ pomStatus = "input"
    /\ pomAgain = << >>
    /\ xmlIn = << >>
    /\ resolveIn = << >>
    /\ resolveOut = << >>
    /\ NoChain
    /\ NoUrl

\* Entries of one coordinate that differ in the fields they have.
ChainDeps ==
    { DepT(<<"a">>, Some(Text1), Some("test"), None, None),
      DepT(<<"a">>, None, None, Some(<<"jar">>), Some(TRUE)),
      DepT(<<"a">>, Some(Text9), None, None, Some(FALSE)) }

\* The heads of the POMs of a chain.
ChainHeads ==
    {[Pom(v, None, None, None, None) EXCEPT !.group_id = g, !.artifact_id = a] :
        g \in {None, Some(<<"g">>), Some(<<"h">>)},
        a \in {<<"m">>, <<"n">>},
        v \in {None, Some(Text1)}}

\* The POMs of a chain with given sections.
ChainPom(a, props, ds) ==
    [Pom(Some(Text1), None, props, ds, None) EXCEPT !.artifact_id = a]

\* A chain of three POMs, root first, that differ in their heads, in their
\* properties or in their dependencies (absent, empty, or with entries of
\* the same coordinates).
InitChain ==
    /\ \/ \E a \in ChainHeads, b \in ChainHeads, c \in ChainHeads :
             pomIn = a /\ pomChild = b /\ pomLeaf = c
       \/ \E a \in MergeProperties, b \in MergeProperties, c \in MergeProperties :
             /\ pomIn = ChainPom(<<"a">>, a, None)
             /\ pomChild = ChainPom(<<"b">>, b, None)
             /\ pomLeaf = ChainPom(<<"c">>, c, None)
       \/ \E a \in {None} \cup {Some(l) : l \in SeqUpTo(ChainDeps, MaxDeps)} :
          \E b \in {None} \cup {Some(l) : l \in SeqUpTo(ChainDeps, MaxDeps)} :
          \E c \in {None} \cup {Some(l) : l \in SeqUpTo(ChainDeps, MaxDeps)} :
             /\ pomIn = ChainPom(<<"a">>, None, a)
             /\ pomChild = ChainPom(<<"b">>, None, b)
             /\ pomLeaf = ChainPom(<<"c">>, None, c)
    /\ pomOut = pomIn
    /\ pomRight = pomIn
    /\ pomStatus = "input"
    /\ pomAgain = << >>
    /\ xmlIn = << >>
    /\ resolveIn = << >>
    /\ resolveOut = << >>
    /\ NoUrl

\* Dependencies to complete: those of MergeDeps, one with every field
\* absent and one with every field present.
RuleDeps ==
    MergeDeps \cup
    { DepT(<<"a">>, None, None, None, None),
      DepT(<<"a">>, Some(<<"2">>), Some("provided"), Some(<<"pom">>), Some(FALSE)) }

\* A POM with dependencies and with dependencyManagement rules.
InitRulesPom ==
    /\ \E ds \in SeqUpTo(RuleDeps, MaxDeps) :
       \E rules \in SeqUpTo(MergeDeps, MaxRules) :
          pomIn = Pom(Some(Text9), None, None, Some(ds), Some(rules))
    /\ pomOut = pomIn
    /\ pomStatus = "input"
    /\ NoOperands

\* Texts to expand: the version texts, and a text with two placeholders
\* between literal parts, "x-${b}-${project.version}".
ResolveTexts ==
    {Unwrap(v) : v \in VersionTexts \ {None}} \cup
    { <<"x", "-">> \o Placeholder(<<"b">>) \o <<"-">> \o Placeholder(PROJECT_VERSION) }

\* Properties, a text and a project version to expand the text with.
InitResolve ==
    /\ \E props \in PropertyMaps, text \in ResolveTexts :
          resolveIn = [props |-> props, text |-> text, project_version |-> Text9]
    /\ resolveOut = << >>
    /\ pomIn = Pom(None, None, None, None, None)
    /\ pomOut = pomIn
    /\ pomStatus = "input"
    /\ pomChild = << >>
    /\ pomAgain = << >>
    /\ xmlIn = << >>
    /\ NoChain
    /\ NoUrl

\* The elements a <parent> may hold: all three, or no version.
ParentElements ==
    { << Element("groupId", <<"h">>), Element("artifactId", <<"p">>),
         Element("version", Text1) >>,
      << Element("groupId", <<"h">>), Element("artifactId", <<"p">>) >> }

\* An element, or nothing.
Maybe(e) == {<< >>, <<e>>}

\* Documents: a text that is not XML, and <project> elements with or
\* without the schema location, each head element, a parent, an element
\* the POM model has no field for, and a second <version>.
Documents ==
    {NotXml} \cup
    {[xml |-> TRUE, schema_location |-> sl,
      children |-> mv \o g \o a \o v \o par \o other \o v2] :
        sl \in {None, Some(<<"xsd">>)},
        mv \in Maybe(Element("modelVersion", <<"4", ".", "0", ".", "0">>)),
        g \in Maybe(Element("groupId", <<"g">>)),
        a \in Maybe(Element("artifactId", <<"c">>)),
        v \in Maybe(Element("version", Text9)),
        par \in {<< >>} \cup {<<Element("parent", pe)>> : pe \in ParentElements},
        other \in Maybe(Element("name", <<"n">>)),
        v2 \in Maybe(Element("version", Text1))}

\* A text to parse.
InitParse ==
    /\ xmlIn \in Documents
    /\ pomIn = Pom(None, None, None, None, None)
    /\ pomOut = << >>
    /\ pomStatus = "input"
    /\ pomChild = << >>
    /\ pomAgain = << >>
    /\ resolveIn = << >>
    /\ resolveOut = << >>
    /\ NoChain
    /\ NoUrl

\* The scopes a <scope> element of a POM may name: the four of
\* MavenDependencyScope, and import and system.
ScopeTexts ==
    {<<"compile">>, <<"runtime">>, <<"test">>, <<"provided">>, <<"import">>,
     <<"system">>}

\* Documents with a <dependencies> section of one or two entries: the first
\* with or without a scope, a version, a type and an optional flag.
ScopedDocuments ==
    {[xml |-> TRUE, schema_location |-> Some(<<"xsd">>),
      children |->
        << Element("modelVersion", <<"4", ".", "0", ".", "0">>),
           Element("groupId", <<"g">>), Element("artifactId", <<"c">>),
           Element("version", Text9),
           Element("dependencies",
              <<Element("dependency",
                  << Element("groupId", <<"g">>), Element("artifactId", <<"a">>) >>
                     \o v \o sc \o t \o o)>> \o more) >>] :
        v \in Maybe(Element("version", Text1)),
        sc \in {<< >>} \cup {<<Element("scope", x)>> : x \in ScopeTexts},
        t \in Maybe(Element("type", <<"jar">>)),
        o \in {<< >>, <<Element("optional", <<"true">>)>>,
               <<Element("optional", <<"false">>)>>},
        more \in Maybe(Element("dependency",
                    << Element("groupId", <<"g">>),
                       Element("artifactId", <<"b">>),
                       Element("scope", <<"test">>) >>))}

\* A text with dependencies to parse.
InitParseScopes ==
    /\ xmlIn \in ScopedDocuments
    /\ pomIn = Pom(None, None, None, None, None)
    /\ pomOut = << >>
    /\ pomStatus = "input"
    /\ pomChild = << >>
    /\ pomAgain = << >>
    /\ resolveIn = << >>
    /\ resolveOut = << >>
    /\ NoChain
    /\ NoUrl

\* Dependency lists to save: none, an empty one, entries with and without
\* version, scope, type and optional, and the repeated entry of
\* tests::test_ser.
RoundTripDeps ==
    { None, Some(<< >>),
      Some(<<Dep(<<"a">>, None, None, None)>>),
      Some(<<Dep(<<"a">>, Some(Text1), Some("runtime"), Some(TRUE))>>),
      Some(<<DepT(<<"a">>, Some(Placeholder(<<"a">>)), Some("compile"),
                  Some(<<"jar">>), Some(FALSE)),
             Dep(<<"b">>, None, Some("test"), None)>>),
      Some(<<Dep(<<"a">>, None, None, None), Dep(<<"a">>, None, None, None)>>) }

\* POMs to clean and save: groupId and version present, or None in a POM
\* with a parent to derive them from (as tests::test_ser builds them),
\* with and without properties and rules.
RoundTripHeads ==
    {h \in [group_id : {None, Some(<<"g">>)}, version : {None, Some(Text9)},
            parent : {None, Some(THE_PARENT)}] :
        IsNone(h.group_id) \/ IsNone(h.version) => IsSome(h.parent)}

RoundTripPoms ==
    {[Pom(h.version, h.parent, props, ds, mgmt) EXCEPT !.group_id = h.group_id] :
        h \in RoundTripHeads,
        props \in {None, Some([n \in {<<"a">>} |-> <<"b">>])},
        ds \in RoundTripDeps,
        mgmt \in {None, Some(<<Dep(<<"a">>, Some(Text9), None, None)>>)}}

\* A POM that is cleaned, saved and parsed again.
InitRoundTrip ==
    /\ pomIn \in RoundTripPoms
    /\ pomOut = << >>
    /\ pomStatus = "input"
    /\ NoOperands

\* The POM part while another part is being checked.
IdlePom ==
    /\ pomIn = Pom(None, None, None, None, None)
    /\ pomOut = pomIn
    /\ pomStatus = "idle"
    /\ NoOperands

Init == InitCache /\ IdleSetup /\ IdlePom

Next == NextCache

Spec == Init /\ [][Next]_vars

\* The steps of caller c that the runtime takes without the environment:
\* lock acquisitions, the critical sections, and the end of the initializer.
Progress(c) ==
    \/ GetRead(c)
    \/ InstallOrLookup(c)
    \/ CellCheck(c)
    \/ CellLock(c)
    \/ InitOk(c)
    \/ InitErr(c)
    \/ CancelInit(c)

\* The tokio runtime polls every woken task, both mutexes wake a waiter on
\* unlock, and an initializer ends (with a value, an error, or dropped).
LiveSpec == Init /\ [][Next]_vars /\ \A c \in Callers : WF_vars(Progress(c))

SetupInit == InitCache /\ InitSetup /\ IdlePom

SpecSetup == SetupInit /\ [][NextSetup]_vars

\* MavenPom::clean over POMs whose dependencies vary in scope and optional.
ScopeInit == InitCache /\ IdleSetup /\ InitScopePom

SpecScope == ScopeInit /\ [][NextPom]_vars

\* MavenPom::clean over POMs whose dependency versions and properties vary.
VersionsInit == InitCache /\ IdleSetup /\ InitVersionsPom

SpecVersions == VersionsInit /\ [][NextPom]_vars

\* MavenPom::merge of a parent POM and a child POM.
MergeInit == InitCache /\ IdleSetup /\ InitMergePoms

SpecMerge == MergeInit /\ [][NextMerge]_vars

\* PomDependencies::apply_rules on the dependencies of a POM.
RulesInit == InitCache /\ IdleSetup /\ InitRulesPom

SpecRules == RulesInit /\ [][NextRules]_vars

\* PropertiesExt::recurse_resolve on a text.
ResolveInit == InitCache /\ IdleSetup /\ InitResolve

SpecResolve == ResolveInit /\ [][NextResolve]_vars

\* MavenPom::parse on a text.
ParseInit == InitCache /\ IdleSetup /\ InitParse

SpecParse == ParseInit /\ [][NextParse]_vars

\* MavenPom::merge of a POM and an empty POM.
MergeIdentityInit == InitCache /\ IdleSetup /\ InitMergeIdentity

SpecMergeIdentity == MergeIdentityInit /\ [][NextMerge]_vars

\* MavenPom::merge along a chain of three POMs.
ChainInit == InitCache /\ IdleSetup /\ InitChain

SpecChain == ChainInit /\ [][NextChain]_vars

\* Base URLs of a repository: the path of a Url is never empty, and it
\* ends with "/" or with a segment.
RepoUrls ==
    {[origin |-> <<"https://repo">>, path |-> path] :
        path \in { <<"/">>, <<"/", "maven2">>, <<"/", "maven2", "/">>,
                   <<"/", "m", "/", "maven2">>, <<"/", "m", "/", "maven2", "/">>,
                   <<"/", "m", "/">> }}

\* Dependencies on a repository, with groups of one, two and three parts.
RepoDependencies ==
    {[group |-> g, artifact |-> a, version |-> v,
      repo |-> [name |-> "central", url |-> u]] :
        g \in {<<"g">>, <<"o", ".", "x">>, <<"o", ".", "x", ".", "y">>},
        a \in {<<"a">>, <<"b">>},
        v \in {<<"1">>, <<"9">>},
        u \in RepoUrls}

\* A dependency whose URLs are asked for.
InitUrls ==
    /\ urlIn \in RepoDependencies
    /\ urlOut = << >>
    /\ pomIn = << >>
    /\ pomOut = << >>
    /\ pomStatus = "idle"
    /\ pomChild = << >>
    /\ pomAgain = << >>
    /\ xmlIn = << >>
    /\ resolveIn = << >>
    /\ resolveOut = << >>
    /\ NoChain

\* The URLs of a dependency on a repository.
UrlsInit == InitCache /\ IdleSetup /\ InitUrls

SpecUrls == UrlsInit /\ [][NextUrls]_vars

\* MavenPom::parse on a text with dependencies.
ParseScopesInit == InitCache /\ IdleSetup /\ InitParseScopes

SpecParseScopes == ParseScopesInit /\ [][NextParse]_vars

\* MavenPom::clean, MavenPom::save and MavenPom::parse in a row.
RoundTripInit == InitCache /\ IdleSetup /\ InitRoundTrip

SpecRoundTrip == RoundTripInit /\ [][NextRoundTrip]_vars

\* MavenPom::clean applied twice in a row.
CleanTwiceInit == InitCache /\ IdleSetup /\ InitMixedPom

SpecCleanTwice == CleanTwiceInit /\ [][NextCleanTwice]_vars

(***************************************************************************)
(*                      CLAIMS ON THE COORDINATE CACHE                     *)
(***************************************************************************)

\* Caller c has returned from get_or_init(k, _).
Returned(c, k) == pc[c] = "done" /\ op[c] = "get_or_init" /\ key[c] = k

\* C1: single-flight. For every key whose initializers never failed and were
\* never dropped, at most one initializer is ever started, exactly one once
\* a caller has returned, and all the callers that returned from
\* get_or_init on that key returned equal Ok values.
C1_SingleFlight ==
    \A k \in Keys :
        ~noValue[k] =>
            /\ started[k] <= 1
            /\ \A c \in Callers :
                 Returned(c, k) =>
                    /\ started[k] = 1
                    /\ result[c][1] = "Ok"
                    /\ \A d \in Callers : Returned(d, k) => result[d] = result[c]

\* C1 witness: all the callers called get_or_init on one key, no initializer
\* failed, and all returned the value of the one initializer that ran.
C1_Witness ==
    \E k \in Keys, i \in Callers :
        /\ ~noValue[k] /\ started[k] = 1
        /\ \A c \in Callers : Returned(c, k) /\ result[c] = Ok(i)

\* C2: in every reachable state, for every key at most one caller holds the
\* cell (has passed its lock); while an initializer runs for the key no other
\* caller of that key has passed the cell's lock or runs an initializer.
C2_OneInitializerAtATime ==
    \A k \in Keys :
        LET holders == {c \in Callers : pc[c] = "init_running" /\ key[c] = k}
        IN  /\ Cardinality(holders) <= 1
            /\ \A c \in holders : cellLock[k] = {c}

\* C2 witness: an initializer is running for a key while another caller of
\* the same key is suspended on the cell.
C2_Witness ==
    \E c, d \in Callers :
        /\ c # d /\ key[c] = key[d]
        /\ pc[c] = "init_running" /\ pc[d] = "cell_wait"

\* C3: the map lock is held only inside the synchronous blocks of get and
\* get_or_init: no caller that checks, waits on or holds a cell, or runs an
\* initializer, holds the map lock.
C3_MapLockShort ==
    /\ \A c \in mapLock : pc[c] \in {"get_locked", "goi_locked"}
    /\ \A c \in Callers :
         pc[c] \in {"cell_check", "cell_wait", "init_running"}
            => c \notin mapLock

\* C3 witness: a caller holds the map lock while another caller's
\* initializer is in progress.
C3_Witness ==
    \E c, d \in Callers : pc[c] = "init_running" /\ mapLock = {d}

\* C4: a failed initializer is not memoized. In the state that follows the
\* return of an error from get_or_init(key, _), get(key) would return absent
\* and the cell's lock is free for the next initializer.
C4_FailureNotMemoized ==
    [][\A c \in Callers :
          (pc[c] = "init_running" /\ pc'[c] = "done" /\ result'[c] = Err(c))
             => (Peek(key[c])' = None /\ cellLock'[key[c]] = Free)]_vars

\* C4 witness: on one key, a get_or_init returned its initializer's error
\* and a later get_or_init ran its own initializer and returned its value.
C4_Witness ==
    \E c, d \in Callers :
        /\ c # d /\ Returned(c, key[c]) /\ Returned(d, key[c])
        /\ result[c] = Err(c) /\ result[d] = Ok(d)

\* C5 (as claimed): a caller that was waiting on a cell when its initializer
\* failed never runs an initializer of its own and returns that error.
C5_WaitersGetSameError ==
    \A w \in Callers :
        IsSome(sawFail[w]) =>
            /\ pc[w] # "init_running"
            /\ pc[w] = "done" => result[w] = Err(Unwrap(sawFail[w]))

\* C6: no waiter hangs. A caller suspended on a cell whose initializer failed
\* or was dropped eventually leaves get_or_init.
C6_NoWaiterHangs ==
    \A c \in Callers :
        (pc[c] = "cell_wait" /\ (IsSome(sawFail[c]) \/ sawDrop[c]))
            ~> (pc[c] \in {"done", "cancelled"})

\* C6 witness: a caller that was suspended when an initializer failed or was
\* dropped has returned.
C6_Witness ==
    \E c \in Callers : (IsSome(sawFail[c]) \/ sawDrop[c]) /\ pc[c] = "done"

(***************************************************************************)
(*                     CLAIMS ON THE DEPENDENCY SETUP                      *)
(***************************************************************************)

\* C7: no-network idempotence. A dependency whose file exists when a run
\* starts is skipped (its task sends no request), and in a run that follows
\* a run whose setup returned normally no request is sent at all and the
\* files of the libs directory stay as that run left them.
C7_NoNetworkIdempotence ==
    /\ \A i \in DOMAIN deps :
          diskAtStart[FileOf(i)] # "absent" => i \notin requested
    /\ prevOk => (requested = {} /\ disk = diskAtStart)

\* C7 witness: a second run over a module with dependencies, all downloaded
\* by the first run, has returned.
C7_Witness ==
    /\ run = 2 /\ prevOk /\ phase = "returned"
    /\ Len(deps) = MaxModuleDeps
    /\ \A i \in DOMAIN deps : disk[FileOf(i)] = "complete"

(***************************************************************************)
(*                        CLAIMS ON THE POM ALGEBRA                        *)
(***************************************************************************)

\* The dependency list of a POM, empty when the section is absent.
DepsOf(pom) == IF IsSome(pom.dependencies) THEN Unwrap(pom.dependencies) ELSE << >>

\* The first dependencyManagement rule of pom with the coordinates of dep.
RuleFor(dep, pom) ==
    IF IsSome(pom.dependency_management)
      THEN FindRule(dep, Unwrap(pom.dependency_management))
      ELSE None

\* Effective scope: the dependency's own, else the rule's, else compile.
EffectiveScope(dep, pom) ==
    IF IsSome(dep.scope) THEN Unwrap(dep.scope)
    ELSE IF IsSome(RuleFor(dep, pom)) /\ IsSome(Unwrap(RuleFor(dep, pom)).scope)
      THEN Unwrap(Unwrap(RuleFor(dep, pom)).scope)
    ELSE "compile"

\* Effective optional: the dependency's own, else the rule's, else false.
EffectiveOptional(dep, pom) ==
    IF IsSome(dep.optional) THEN Unwrap(dep.optional)
    ELSE IF IsSome(RuleFor(dep, pom)) /\ IsSome(Unwrap(RuleFor(dep, pom)).optional)
      THEN Unwrap(Unwrap(RuleFor(dep, pom)).optional)
    ELSE FALSE

\* The dependencies of pom that propagate, in their order.
Propagating(pom) ==
    LET Keeps(d) == /\ EffectiveScope(d, pom) \in {"compile", "runtime"}
                    /\ ~EffectiveOptional(d, pom)
    IN  SelectSeq(DepsOf(pom), Keeps)

\* C8: scope pruning. After clean, the remaining dependencies are, in order,
\* the dependencies whose effective scope is compile or runtime and whose
\* effective optional is false; each carries that effective scope (compile
\* when absent) and an optional that is absent or false. Every dependency
\* with effective scope test or provided, or effective optional true, is gone.
C8_ScopePruning ==
    pomStatus = "ok" =>
        LET expected == Propagating(pomIn)
            out == DepsOf(pomOut)
        IN  /\ Len(out) = Len(expected)
            /\ \A n \in DOMAIN out :
                 /\ out[n].group_id = expected[n].group_id
                 /\ out[n].artifact_id = expected[n].artifact_id
                 /\ EffectiveScope(out[n], pomOut) = EffectiveScope(expected[n], pomIn)
                 /\ EffectiveScope(out[n], pomOut) \in {"compile", "runtime"}
                 /\ EffectiveOptional(out[n], pomOut) = FALSE

\* C8 witness: clean removed a dependency that has no scope of its own and
\* gets test from its rule, removed or kept others, and kept one.
C8_Witness ==
    /\ pomStatus = "ok"
    /\ Len(DepsOf(pomIn)) = MaxDeps
    /\ Len(DepsOf(pomOut)) = 1
    /\ \E i \in DOMAIN DepsOf(pomIn) :
         /\ IsNone(DepsOf(pomIn)[i].scope)
         /\ EffectiveScope(DepsOf(pomIn)[i], pomIn) = "test"

\* text contains sub as a substring.
Occurs(sub, text) ==
    \E i \in 1 .. Len(text) - Len(sub) + 1 : SubSeq(text, i, i + Len(sub) - 1) = sub

\* The names defined for a POM: its properties, and project.version when
\* the POM has a version.
DefinedNames(pom) ==
    (IF IsSome(pom.version) THEN {PROJECT_VERSION} ELSE {}) \cup
        (IF IsSome(pom.properties) THEN DOMAIN Unwrap(pom.properties) ELSE {})

\* C9 (as claimed): after clean, no remaining version contains the
\* placeholder of a defined name: ${project.version} and every ${name} with
\* name defined is expanded, with or without a properties section.
C9_NoPlaceholderLeft ==
    pomStatus = "ok" =>
        \A n \in DOMAIN DepsOf(pomOut) :
            LET v == DepsOf(pomOut)[n].version IN
            IsSome(v) =>
                \A name \in DefinedNames(pomIn) : ~Occurs(Placeholder(name), Unwrap(v))

\* C10 (as claimed): after clean the POM has no parent, no properties and
\* no dependencyManagement, and no dependencies when none survived.
C10_CleanedHasNoParent ==
    pomStatus = "ok" =>
        /\ IsNone(pomOut.parent)
        /\ IsNone(pomOut.properties)
        /\ IsNone(pomOut.dependency_management)
        /\ Propagating(pomIn) = << >> => IsNone(pomOut.dependencies)

\* C10 (amended): after clean the POM has no properties and no
\* dependencyManagement, no dependencies when none survived, and the parent
\* reference it had before: clean does not touch parent.
C10_CleanStrips ==
    pomStatus = "ok" =>
        /\ pomOut.parent = pomIn.parent
        /\ IsNone(pomOut.properties)
        /\ IsNone(pomOut.dependency_management)
        /\ Propagating(pomIn) = << >> => IsNone(pomOut.dependencies)

\* C10 witness: clean ran on a POM with a parent, properties, rules and
\* dependencies none of which survived.
C10_Witness ==
    /\ pomStatus = "ok"
    /\ IsSome(pomIn.parent) /\ IsSome(pomIn.properties)
    /\ IsSome(pomIn.dependency_management)
    /\ Len(DepsOf(pomIn)) = MaxDeps
    /\ IsNone(pomOut.dependencies)

\* C11: clean is idempotent. Whenever a first clean returned, a second clean
\* applied to the POM it left returns too and leaves that POM unchanged:
\* clean(clean(p)) = clean(p).
C11_CleanIdempotent ==
    pomStatus \in {"again ok", "again panic", "again overflow"} =>
        /\ pomStatus = "again ok"
        /\ pomAgain = pomOut

\* C11 witness: a POM with rules and properties, whose first clean dropped a
\* dependency and rewrote a version, has been cleaned twice.
C11_Witness ==
    /\ pomStatus = "again ok"
    /\ IsSome(pomIn.dependency_management) /\ IsSome(pomIn.properties)
    /\ Len(DepsOf(pomIn)) = MaxDeps
    /\ Len(DepsOf(pomOut)) = 1
    /\ \E i \in DOMAIN DepsOf(pomIn) :
         /\ IsSome(DepsOf(pomIn)[i].version)
         /\ DepsOf(pomOut)[1].artifact_id = DepsOf(pomIn)[i].artifact_id
         /\ IsSome(DepsOf(pomOut)[1].version)
         /\ DepsOf(pomOut)[1].version # DepsOf(pomIn)[i].version
         /\ Occurs(<<"$", "{">>, Unwrap(DepsOf(pomOut)[1].version))

\* C12: the head of a merged POM. parent.merge(child) has the child's
\* groupId if present, else the parent's; the child's version if present,
\* else the parent's; the child's artifactId; modelVersion "4.0.0"; and no
\* parent reference.
C12_MergedHead ==
    pomStatus = "merged" =>
        /\ pomOut.group_id = IF IsSome(pomChild.group_id) THEN pomChild.group_id
                                                          ELSE pomIn.group_id
        /\ pomOut.version = IF IsSome(pomChild.version) THEN pomChild.version
                                                        ELSE pomIn.version
        /\ pomOut.artifact_id = pomChild.artifact_id
        /\ pomOut.model_version = <<"4", ".", "0", ".", "0">>
        /\ IsNone(pomOut.parent)

\* C12 witness: a child with a groupId, without a version, with a parent
\* reference and another modelVersion has been merged over a parent of
\* another groupId and artifactId.
C12_Witness ==
    /\ pomStatus = "merged"
    /\ IsSome(pomChild.group_id) /\ IsSome(pomIn.group_id)
    /\ pomChild.group_id # pomIn.group_id
    /\ pomChild.artifact_id # pomIn.artifact_id
    /\ IsNone(pomChild.version) /\ IsSome(pomIn.version)
    /\ IsSome(pomChild.parent)
    /\ pomChild.model_version # <<"4", ".", "0", ".", "0">>

\* The coordinates that identify an entry of a section.
Coords(d) == <<d.group_id, d.artifact_id>>

\* The entries of list with coordinates k, in their order.
WithCoords(list, k) == SelectSeq(list, LAMBDA d : Coords(d) = k)

\* The indices of list whose entry is the first one with its coordinates.
FirstIndices(list) ==
    {i \in DOMAIN list : \A j \in 1 .. i - 1 : Coords(list[j]) # Coords(list[i])}

\* The entries of list at the indices in I, in their order.
EntriesAt(list, I) ==
    LET idxs == SelectSeq([i \in DOMAIN list |-> i], LAMBDA i : i \in I)
    IN  [n \in DOMAIN idxs |-> list[idxs[n]]]

\* Field f of base overridden by the entries of over in turn: the last
\* present value wins, an absent value changes nothing.
LastPresent(base, over, f) ==
    LET all == <<base>> \o over
        present == {i \in DOMAIN all : IsSome(all[i][f])}
    IN  IF present = {} THEN None
        ELSE all[CHOOSE i \in present : \A x \in present : x <= i][f]

\* An entry overridden field-wise by the entries of over, in turn.
Overridden(base, over) ==
    [group_id |-> base.group_id,
     artifact_id |-> base.artifact_id,
     version |-> LastPresent(base, over, "version"),
     scope |-> LastPresent(base, over, "scope"),
     type |-> LastPresent(base, over, "type"),
     optional |-> LastPresent(base, over, "optional")]

\* The list of an absent or present section.
ListOf(section) == IF IsSome(section) THEN Unwrap(section) ELSE << >>

\* Child wins on a property key both sides define; the other keys keep
\* their value.
PropertiesChildWin ==
    LET P == ListOf(pomIn.properties)
        C == ListOf(pomChild.properties)
    IN  IF IsNone(pomIn.properties) /\ IsNone(pomChild.properties)
          THEN IsNone(pomOut.properties)
          ELSE /\ IsSome(pomOut.properties)
               /\ DOMAIN Unwrap(pomOut.properties) = DOMAIN P \cup DOMAIN C
               /\ \A k \in DOMAIN P \cup DOMAIN C :
                     Unwrap(pomOut.properties)[k] =
                         IF k \in DOMAIN C THEN C[k] ELSE P[k]

\* The section C13 describes: every parent entry at its position,
\* overridden by the child entries with its coordinates, followed by every
\* child entry whose coordinates match no parent entry.
MatchParentEntries(p, c) ==
    IF IsNone(p) /\ IsNone(c) THEN None
    ELSE LET ps == ListOf(p)
             cs == ListOf(c)
             unmatched == SelectSeq(cs, LAMBDA d : WithCoords(ps, Coords(d)) = << >>)
         IN  Some([i \in DOMAIN ps |->
                     Overridden(ps[i], IF i \in FirstIndices(ps)
                                         THEN WithCoords(cs, Coords(ps[i]))
                                         ELSE << >>)]
                  \o unmatched)

\* C13 as stated: child wins on every property key, and in dependencies and
\* in dependencyManagement every child entry that matches a parent entry
\* overrides it field-wise in place while every child entry that matches no
\* parent entry is appended.
C13_ChildWins ==
    pomStatus = "merged" =>
        /\ PropertiesChildWin
        /\ pomOut.dependencies =
               MatchParentEntries(pomIn.dependencies, pomChild.dependencies)
        /\ pomOut.dependency_management =
               MatchParentEntries(pomIn.dependency_management,
                                  pomChild.dependency_management)

\* The section merge builds. A side without the section leaves the other
\* side's list as it is. With both, a child entry is matched against the
\* list built so far, the child entries appended before it included: the
\* result is the parent entries followed by the first child entry of each
\* coordinate the parent lacks, and the first entry of each coordinate is
\* overridden by every child entry with that coordinate, in turn.
MatchBuiltEntries(p, c) ==
    IF IsNone(p) THEN c
    ELSE IF IsNone(c) THEN p
    ELSE LET ps == Unwrap(p)
             cs == Unwrap(c)
             fresh == {j \in FirstIndices(cs) : WithCoords(ps, Coords(cs[j])) = << >>}
             built == ps \o EntriesAt(cs, fresh)
         IN  Some([i \in DOMAIN built |->
                     Overridden(built[i], IF i \in FirstIndices(built)
                                            THEN WithCoords(cs, Coords(built[i]))
                                            ELSE << >>)])

\* C13, amended: child wins on every property key; in dependencies and in
\* dependencyManagement a child entry overrides field-wise the first entry
\* with its coordinates in the list built so far, and is appended only when
\* that list has none, so that child entries that repeat a coordinate the
\* parent lacks end up as one entry.
C13_ChildWinsFirstMatch ==
    pomStatus = "merged" =>
        /\ PropertiesChildWin
        /\ pomOut.dependencies =
               MatchBuiltEntries(pomIn.dependencies, pomChild.dependencies)
        /\ pomOut.dependency_management =
               MatchBuiltEntries(pomIn.dependency_management,
                                 pomChild.dependency_management)

\* C13 witness: over a parent with dependencies, a child has been merged
\* whose two dependencies share a coordinate the parent lacks and differ in
\* their fields; they ended up as one appended entry.
C13_Witness ==
    /\ pomStatus = "merged"
    /\ Len(ListOf(pomIn.dependencies)) >= 1
    /\ Len(ListOf(pomChild.dependencies)) = MaxDeps
    /\ FirstIndices(ListOf(pomChild.dependencies)) = {1}
    /\ ListOf(pomChild.dependencies)[1] # ListOf(pomChild.dependencies)[2]
    /\ Len(ListOf(pomOut.dependencies)) = Len(ListOf(pomIn.dependencies)) + 1

\* The fields of a dependency that a rule can complete.
RuledFields == {"version", "scope", "type", "optional"}

\* C14: apply_rules only fills gaps. The dependencies keep their number,
\* their order, their groupId and their artifactId; a dependency with no
\* rule of its coordinates is unchanged; with one, every present field is
\* unchanged and every absent field is the field of the (first) rule with
\* its coordinates.
C14_RulesFillGaps ==
    pomStatus = "ruled" =>
        LET in == ListOf(pomIn.dependencies)
            out == ListOf(pomOut.dependencies)
            rules == ListOf(pomIn.dependency_management)
        IN  /\ Len(out) = Len(in)
            /\ \A i \in DOMAIN in :
                 LET matching == WithCoords(rules, Coords(in[i])) IN
                 /\ Coords(out[i]) = Coords(in[i])
                 /\ matching = << >> => out[i] = in[i]
                 /\ matching # << >> =>
                       \A f \in RuledFields :
                           out[i][f] = IF IsSome(in[i][f]) THEN in[i][f]
                                                          ELSE matching[1][f]

\* C14 witness: rules have been applied to two dependencies; the first has
\* a rule that filled an absent field and that differs on a present field,
\* the second has no rule.
C14_Witness ==
    /\ pomStatus = "ruled"
    /\ Len(ListOf(pomIn.dependencies)) = MaxDeps
    /\ LET in == ListOf(pomIn.dependencies)
           out == ListOf(pomOut.dependencies)
           rules == ListOf(pomIn.dependency_management)
           matching == WithCoords(rules, Coords(in[1]))
       IN  /\ matching # << >>
           /\ \E f \in RuledFields : IsNone(in[1][f]) /\ IsSome(out[1][f])
           /\ \E f \in RuledFields :
                 /\ IsSome(in[1][f]) /\ IsSome(matching[1][f])
                 /\ in[1][f] # matching[1][f]
           /\ WithCoords(rules, Coords(in[2])) = << >>

\* The leftmost placeholder of a text as a reader takes it: "${", a name
\* without "}", and the next "}". <<i, j>>: the placeholder is
\* text[i .. j]; << >>: the text has none.
NextPlaceholder(text) ==
    LET starts == {i \in 1 .. Len(text) - 3 :
                     /\ text[i] = "$" /\ text[i + 1] = "{" /\ text[i + 2] # "}"
                     /\ \E j \in i + 3 .. Len(text) : text[j] = "}"}
    IN  IF starts = {} THEN << >>
        ELSE LET i == CHOOSE x \in starts : \A y \in starts : x <= y
                 j == CHOOSE x \in i + 3 .. Len(text) :
                        /\ text[x] = "}"
                        /\ \A y \in i + 3 .. x - 1 : text[y] # "}"
             IN  <<i, j>>

\* The names of the placeholders of a text.
RECURSIVE PlaceholderNames(_)
PlaceholderNames(text) ==
    LET m == NextPlaceholder(text) IN
    IF m = << >> THEN {}
    ELSE {SubSeq(text, m[1] + 2, m[2] - 1)}
         \cup PlaceholderNames(SubSeq(text, m[2] + 1, Len(text)))

\* The expansion C15 describes: every ${name} replaced by the expansion of
\* props[name], ${project.version} by the project version, the rest of the
\* text kept. A name without a definition, or nested deeper than fuel, is
\* left as written.
RECURSIVE Expanded(_, _, _, _)
Expanded(props, text, project_version, fuel) ==
    LET m == NextPlaceholder(text) IN
    IF m = << >> THEN text
    ELSE LET name == SubSeq(text, m[1] + 2, m[2] - 1)
             value == IF name = PROJECT_VERSION THEN project_version
                      ELSE IF name \in DOMAIN props /\ fuel > 0
                        THEN Expanded(props, props[name], project_version, fuel - 1)
                      ELSE Placeholder(name)
         IN  SubSeq(text, 1, m[1] - 1) \o value
             \o Expanded(props, SubSeq(text, m[2] + 1, Len(text)),
                         project_version, fuel)

\* Every placeholder of the text, and of the values it leads to, has a
\* definition, and no definition leads back to itself.
Resolvable(props, text) ==
    ~Occurs(<<"$", "{">>,
            Expanded(props, text, Text9, Cardinality(DOMAIN props)))

\* recurse_resolve has been applied.
Resolved == pomStatus \in {"resolved", "overflow"}

\* C15: expansion replaces every placeholder. For a text with placeholders
\* that all have a definition, recurse_resolve returns the text in which
\* each ${name} is replaced by the expansion of props[name] and each
\* ${project.version} by the project version, the rest unchanged.
C15_EveryPlaceholderReplaced ==
    (/\ Resolved
     /\ PlaceholderNames(resolveIn.text) # {}
     /\ Resolvable(resolveIn.props, resolveIn.text)) =>
        /\ pomStatus = "resolved"
        /\ resolveOut = Expanded(resolveIn.props, resolveIn.text,
                                 resolveIn.project_version,
                                 Cardinality(DOMAIN resolveIn.props))

\* C16: an undefined name preserves the text. For a text whose placeholders
\* have no definition, recurse_resolve returns the text as it was given.
C16_UndefinedNamePreserved ==
    (/\ Resolved
     /\ PlaceholderNames(resolveIn.text) # {}
     /\ \A name \in PlaceholderNames(resolveIn.text) :
           name # PROJECT_VERSION /\ name \notin DOMAIN resolveIn.props) =>
        /\ pomStatus = "resolved"
        /\ resolveOut = resolveIn.text

\* C17: expansion ends on cyclic definitions. recurse_resolve returns a
\* text for every properties and text, those included whose definitions
\* lead back to themselves.
C17_CyclesTerminate ==
    (Resolved /\ ~Resolvable(resolveIn.props, resolveIn.text)) =>
        pomStatus = "resolved"

\* MavenPom::parse has been applied to a document.
ParseEnded == pomStatus \in {"parsed", "parse error", "panic"}

\* What the document itself declares under <project>.
Declared(tag) ==
    IF ~xmlIn.xml THEN << >> ELSE ChildrenNamed(xmlIn.children, tag)

\* C18: every POM that parse returns has a groupId and a version; the one
\* the document lacks is the groupId, respectively the version, of the
\* document's parent reference.
C18_ParsedHasIdentity ==
    pomStatus = "parsed" =>
        /\ IsSome(pomOut.group_id) /\ IsSome(pomOut.version)
        /\ Declared("groupId") = << >> =>
              pomOut.group_id =
                  Some(ChildrenNamed(Declared("parent")[1], "groupId")[1])
        /\ Declared("version") = << >> =>
              pomOut.version =
                  Some(ChildrenNamed(Declared("parent")[1], "version")[1])

\* C18 witness: a document with a parent and with neither groupId nor
\* version has been parsed.
C18_Witness ==
    /\ pomStatus = "parsed"
    /\ Declared("groupId") = << >> /\ Declared("version") = << >>
    /\ Declared("parent") # << >>

\* C19: a document without groupId or without version that declares no
\* parent makes parse return an error to its caller.
C19_NoIdentityIsAnError ==
    (/\ ParseEnded
     /\ Declared("groupId") = << >> \/ Declared("version") = << >>
     /\ Declared("parent") = << >>) =>
        pomStatus = "parse error"

\* C20: the pure functions never fail. clean returns for every POM it is
\* applied to, sparse ones included: it neither panics nor recurses without
\* end.
C20_CleanNeverFails ==
    pomStatus \notin {"panic", "overflow", "again panic", "again overflow"}

\* A POM with no groupId, no version, no properties, no dependencies and no
\* dependencyManagement.
IsEmpty(pom) ==
    /\ IsNone(pom.group_id) /\ IsNone(pom.version)
    /\ IsNone(pom.properties) /\ IsNone(pom.dependencies)
    /\ IsNone(pom.dependency_management)

\* A POM with modelVersion "4.0.0" and without its parent reference.
Normalized(pom) ==
    [pom EXCEPT !.model_version = <<"4", ".", "0", ".", "0">>, !.parent = None]

\* C21: merge left identity. An empty POM merged with a child p gives p,
\* but for modelVersion "4.0.0" and the cleared parent.
C21_MergeLeftIdentity ==
    (pomStatus = "merged" /\ IsEmpty(pomIn)) => pomOut = Normalized(pomChild)

\* C21 witness: an empty POM has been merged with a child that has a
\* parent reference, properties, rules and two dependencies of the same
\* coordinates.
C21_Witness ==
    /\ pomStatus = "merged" /\ IsEmpty(pomIn)
    /\ pomChild.artifact_id # pomIn.artifact_id
    /\ IsSome(pomChild.parent) /\ IsSome(pomChild.properties)
    /\ IsSome(pomChild.dependency_management)
    /\ Len(ListOf(pomChild.dependencies)) = MaxDeps
    /\ FirstIndices(ListOf(pomChild.dependencies)) = {1}

\* C22 as stated: merge right identity. A POM p merged with an empty child
\* gives p, but for modelVersion "4.0.0" and the cleared parent.
C22_MergeRightIdentity ==
    (pomStatus = "merged" /\ IsEmpty(pomChild)) => pomOut = Normalized(pomIn)

\* C22, amended: a POM p merged with an empty child gives p, but for
\* modelVersion "4.0.0", the cleared parent, and the artifactId, which is
\* the empty child's.
C22_MergeRightIdentityButArtifact ==
    (pomStatus = "merged" /\ IsEmpty(pomChild)) =>
        pomOut = [Normalized(pomIn) EXCEPT !.artifact_id = pomChild.artifact_id]

\* C22 witness: a POM with a parent reference, properties, rules and
\* dependencies has been merged with an empty child of another artifactId.
C22_Witness ==
    /\ pomStatus = "merged" /\ IsEmpty(pomChild)
    /\ pomChild.artifact_id # pomIn.artifact_id
    /\ IsSome(pomIn.parent) /\ IsSome(pomIn.properties)
    /\ IsSome(pomIn.dependency_management)
    /\ Len(ListOf(pomIn.dependencies)) = MaxDeps

\* C23: merge is associative over a chain. For the POMs A, B, C of a chain
\* (root first), merge(merge(A, B), C) = merge(A, merge(B, C)).
C23_MergeAssociative ==
    pomStatus = "folded" => pomOut = pomRight

(***************************************************************************)
(*                      CLAIMS ON THE REPOSITORY URLS                      *)
(***************************************************************************)

\* A URL as a text.
UrlText(url) == url.origin \o url.path

\* U followed by g with dots replaced by slashes, "/", a, "/", v, "/", a,
\* "-", v and the file suffix.
UrlAfterBase(d, suffix) ==
    UrlText(d.repo.url) \o replace(d.group, ".", "/") \o <<"/">> \o d.artifact
        \o <<"/">> \o d.version \o <<"/">> \o d.artifact \o <<"-">> \o d.version
        \o <<suffix>>

\* C24: URL construction. For every coordinate and every base URL U, the
\* jar URL is U followed by the path of the coordinate and the jar's name,
\* and the pom, sources and docs URLs differ from it in the suffix only.
C24_UrlConstruction ==
    urlOut # << >> =>
        /\ UrlText(urlOut.jar) = UrlAfterBase(urlIn, ".jar")
        /\ UrlText(urlOut.pom) = UrlAfterBase(urlIn, ".pom")
        /\ UrlText(urlOut.sources) = UrlAfterBase(urlIn, "-sources.jar")
        /\ UrlText(urlOut.docs) = UrlAfterBase(urlIn, "-javadoc.jar")

(***************************************************************************)
(*                 CLAIMS ON SAVING AND PARSING A POM                      *)
(***************************************************************************)

\* The text saved was parsed, or the parsing failed.
RoundTripEnded ==
    pomStatus \in {"round trip parsed", "round trip panic",
                   "round trip parse error"}

\* C25: round trip. For every POM p, parsing the text saved from the
\* cleaned POM gives back the cleaned POM: parse(save(clean(p))) = clean(p).
C25_RoundTrip ==
    RoundTripEnded => pomStatus = "round trip parsed" /\ pomAgain = pomOut

\* The scope the text gives to its first dependency, if any.
FirstScopeText ==
    ChildrenNamed(
        ChildrenNamed(ChildrenNamed(xmlIn.children, "dependencies")[1],
                      "dependency")[1],
        "scope")

\* C26: a dependency whose scope in the XML is not one of compile, runtime,
\* test and provided (import, system) is parsed successfully and treated
\* as compile scope: the unknown scope does not make the parsing fail.
C26_UnknownScopeIsCompile ==
    /\ ParseEnded
    /\ FirstScopeText # << >>
    /\ FirstScopeText[1] \notin {<<"compile">>, <<"runtime">>, <<"test">>,
                                 <<"provided">>}
    => /\ pomStatus = "parsed"
       /\ EffectiveScope(Unwrap(pomOut.dependencies)[1], pomOut) = "compile"

(***************************************************************************)
(*              CLAIMS ON THE TASKS AND THEIR DEPENDENCY SETUP             *)
(***************************************************************************)

\* execute_task_mod(Task::Check) has returned in the current run.
CheckReturned ==
    phase \in {"returned", "compiling", "built", "build panicked", "running",
               "ran", "documented", "packaged"}

\* C27: a failure in any spawned dependency task aborts the outer call. If
\* the download of a dependency failed, setup_all_dependencies does not
\* return, and a Build, Run or Package never goes on to the compiler.
C27_FailureAborts ==
    (\E i \in DOMAIN deps : task[i] = "panicked") => ~CheckReturned

\* C27 witness: a Build, Run or Package stopped in the join loop on the
\* panic of a task whose download failed, one task having ended normally.
C27_Witness ==
    /\ command \in {"Build", "Run", "Package"}
    /\ phase = "panicked"
    /\ \E i \in DOMAIN deps : task[i] = "panicked" /\ i \in requested
    /\ \E i \in DOMAIN deps : task[i] = "done"

\* C28: join before compile. setup_all_dependencies returns only after
\* every task it spawned has finished, the compiler is invoked only after
\* that return, and Run starts the program only after Build has finished.
C28_JoinBeforeCompile ==
    /\ [](CheckReturned =>
            /\ joined = Len(deps)
            /\ \A i \in DOMAIN deps : task[i] \in {"done", "panicked"})
    /\ [][phase' = "compiling" => phase = "returned"]_vars
    /\ [][phase' = "running" => phase = "built"]_vars

\* C28 witness: the program of a Run is running, after the build and after
\* the tasks of the first run downloaded every dependency.
C28_Witness ==
    /\ command = "Run"
    /\ phase = "running"
    /\ run = 1
    /\ requested = 1 .. MaxModuleDeps

\* C29: a failed download leaves nothing behind that looks cached. When the
\* download of a dependency failed, no file exists at its path (no other
\* task of the run writes to that path, and it was absent when the run
\* started).
C29_FailedDownloadLeavesNoFile ==
    \A i \in DOMAIN deps :
        /\ task[i] = "panicked"
        /\ diskAtStart[FileOf(i)] = "absent"
        /\ \A j \in DOMAIN deps \ {i} : FileOf(j) # FileOf(i)
        => ~Exists(FileOf(i))

\* C30: distinct coordinates never share a cache file. In a run over an
\* empty libs directory, a dependency whose task found its file present
\* found the file of a task for the same coordinate, never the file cached
\* for a coordinate that differs in group, artifact or version.
C30_NoSharedCacheFile ==
    \A i \in DOMAIN deps :
        run = 1 /\ task[i] = "done" /\ i \notin requested
        => \E j \in requested : deps[j] = deps[i]

=============================================================================
